---- MODULE Spec2Model ----
(***************************************************************************)
(* A model of clip_dxf.py: the per-type clip rules, the clip orchestrator  *)
(* process_clip_task, and the task table with its lock and its readers     *)
(* (get_progress, download_file, list_tasks, ClipGui._poll_task).          *)
(*                                                                         *)
(* Geometry.  Coordinates are integers of a small grid.  A region is a set *)
(* of pairwise disjoint closed axis-aligned rectangles (one rectangle: a   *)
(* Polygon, several: a MultiPolygon).  Lines and polylines run along the   *)
(* grid axes, so every crossing of a region boundary falls on a grid point *)
(* and shapely's contains / intersection / intersects can be computed      *)
(* exactly.                                                                *)
(***************************************************************************)
EXTENDS Integers, Sequences, FiniteSets, TLC

\* ------------------------------------------------------------------ bounds
GridMax == 3
MaxVerts == 3
MaxErr == 3

\* ------------------------------------------------------------ small helpers
Abs(n) == IF n < 0 THEN -n ELSE n

Sgn(n) == IF n > 0 THEN 1 ELSE IF n < 0 THEN -1 ELSE 0

Range(s) == {s[i] : i \in DOMAIN s}

RECURSIVE SortedSeq(_)
\* the finite set of integers S as an increasing sequence
SortedSeq(S) ==
    IF S = {} THEN <<>>
    ELSE LET m == CHOOSE x \in S : \A y \in S : x <= y
         IN  <<m>> \o SortedSeq(S \ {m})

RECURSIVE Flatten(_)
Flatten(ss) == IF ss = <<>> THEN <<>> ELSE Head(ss) \o Flatten(Tail(ss))

\* ---------------------------------------------------------------- geometry
Pts == (0..GridMax) \X (0..GridMax)

Rects ==
    {r \in [x1 : 0..GridMax, y1 : 0..GridMax, x2 : 0..GridMax, y2 : 0..GridMax] :
        r.x1 < r.x2 /\ r.y1 < r.y2}

\* point p lies in the closed rectangle r
InRect(p, r) == r.x1 <= p[1] /\ p[1] <= r.x2 /\ r.y1 <= p[2] /\ p[2] <= r.y2

\* point p lies in the interior of r
InRectInterior(p, r) == r.x1 < p[1] /\ p[1] < r.x2 /\ r.y1 < p[2] /\ p[2] < r.y2

\* the closed rectangles r and s share no point
RectsDisjoint(r, s) == r.x2 < s.x1 \/ s.x2 < r.x1 \/ r.y2 < s.y1 \/ s.y2 < r.y1

\* isinstance(shp_polygon, (Polygon, MultiPolygon))
IsPolygonal(region) == region.kind \in {"Polygon", "MultiPolygon"}

\* shp_polygon.contains(Point(p))
ContainsPoint(region, p) == \E r \in region.rects : InRectInterior(p, r)

\* Point(p) is not disjoint from the region (interior or boundary)
CoversPoint(region, p) == \E r \in region.rects : InRect(p, r)

\* the grid points of the segment p -> q after p, q included (p, q on one axis line)
SegUnits(p, q) ==
    LET n  == Abs(q[1] - p[1]) + Abs(q[2] - p[2])
        dx == Sgn(q[1] - p[1])
        dy == Sgn(q[2] - p[2])
    IN  [i \in 1..n |-> [pt |-> <<p[1] + i * dx, p[2] + i * dy>>, vtx |-> (i = n)]]

RECURSIVE UnitsFrom(_, _)
UnitsFrom(points, i) ==
    IF i >= Len(points) THEN <<>>
    ELSE SegUnits(points[i], points[i + 1]) \o UnitsFrom(points, i + 1)

\* LineString(points) as its grid points in order; vtx marks the given vertices
Units(points) == <<[pt |-> points[1], vtx |-> TRUE]>> \o UnitsFrom(points, 1)

\* the unit edge p-q lies in the closed region
EdgeIn(region, p, q) == \E r \in region.rects : InRect(p, r) /\ InRect(q, r)

\* the open unit edge p-q lies in the interior of the region
EdgeInterior(region, p, q) ==
    \E r \in region.rects :
        /\ InRect(p, r) /\ InRect(q, r)
        /\ IF p[2] = q[2] THEN r.y1 < p[2] /\ p[2] < r.y2
                          ELSE r.x1 < p[1] /\ p[1] < r.x2

\* shp_polygon.contains(LineString(points)): no point of the line outside the
\* region and a point of it in the region's interior
ContainsLine(region, points) ==
    LET u == Units(points)
    IN  /\ \A i \in 1..(Len(u) - 1) : EdgeIn(region, u[i].pt, u[i + 1].pt)
        /\ \E i \in 1..(Len(u) - 1) : EdgeInterior(region, u[i].pt, u[i + 1].pt)

\* LineString(points).intersection(shp_polygon): the line-string parts (each a
\* coordinate sequence, in the order of the line) and the isolated points
Intersection(region, points) ==
    LET u      == Units(points)
        n      == Len(u)
        in(i)  == i >= 1 /\ i < n /\ EdgeIn(region, u[i].pt, u[i + 1].pt)
        starts == {i \in 1..(n - 1) : in(i) /\ ~in(i - 1)}
        last(i) == CHOOSE j \in i..(n - 1) :
                      /\ \A k \in i..j : in(k)
                      /\ ~in(j + 1)
        coords(i) ==
            LET j   == last(i)
                mid == SortedSeq({k \in (i + 1)..j : u[k].vtx})
            IN  <<u[i].pt>> \o [m \in 1..Len(mid) |-> u[mid[m]].pt] \o <<u[j + 1].pt>>
        ss     == SortedSeq(starts)
        iso    == {k \in 1..n : CoversPoint(region, u[k].pt) /\ ~in(k - 1) /\ ~in(k)}
        si     == SortedSeq(iso)
    IN  [lines  |-> [m \in 1..Len(ss) |-> coords(ss[m])],
         points |-> [m \in 1..Len(si) |-> u[si[m]].pt]]

\* the shapely type of an intersection result
GeomType(g) ==
    IF Len(g.lines) = 0 /\ Len(g.points) = 0 THEN "Empty"
    ELSE IF Len(g.lines) = 0
         THEN (IF Len(g.points) = 1 THEN "Point" ELSE "MultiPoint")
    ELSE IF Len(g.points) = 0
         THEN (IF Len(g.lines) = 1 THEN "LineString" ELSE "MultiLineString")
    ELSE "GeometryCollection"

\* disk (center, radius) .intersects(shp_polygon): some point of a rectangle is
\* within radius of the center
DiskIntersects(region, center, radius) ==
    \E r \in region.rects :
        LET dx == IF center[1] < r.x1 THEN r.x1 - center[1]
                  ELSE IF center[1] > r.x2 THEN center[1] - r.x2 ELSE 0
            dy == IF center[2] < r.y1 THEN r.y1 - center[2]
                  ELSE IF center[2] > r.y2 THEN center[2] - r.y2 ELSE 0
        IN  dx * dx + dy * dy <= radius * radius

\* the rectangle whose corners the vertex list names
BBox(vertices) ==
    LET xs == {vertices[i][1] : i \in DOMAIN vertices}
        ys == {vertices[i][2] : i \in DOMAIN vertices}
        mn(S) == CHOOSE x \in S : \A y \in S : x <= y
        mx(S) == CHOOSE x \in S : \A y \in S : x >= y
    IN  [x1 |-> mn(xs), y1 |-> mn(ys), x2 |-> mx(xs), y2 |-> mx(ys)]

\* Polygon(vertices).intersects(shp_polygon), the vertices being a rectangle's corners
PolygonIntersects(region, vertices) ==
    \E r \in region.rects : ~RectsDisjoint(BBox(vertices), r)

\* LineString(vertices).intersects(shp_polygon)
LineIntersects(region, vertices) ==
    GeomType(Intersection(region, vertices)) # "Empty"

\* -------------------------------------------------------- per-type clip rules
\* A rule's result: the (to_delete, to_add) pair it returns, to_delete as entity
\* handles; raised says that the call ended by an exception instead of returning.
\* Every entity of to_add was created by msp.add_line / msp.add_lwpolyline, which
\* also inserted it into the modelspace when the rule ran.
\* err is the place where the call meets an internal error: 0 nowhere, 1 while the
\* geometry is built or tested, k + 1 in the k-th msp.add_* call.
Result(to_delete, to_add) ==
    [to_delete |-> to_delete, to_add |-> to_add, raised |-> FALSE]

\* dxfattribs with layer, color and linetype of the source entity
FullAttribs(entity) ==
    [layer |-> entity.layer, color |-> entity.color, linetype |-> entity.linetype]

\* dxfattribs={'layer': entity.dxf.layer}: color and linetype get the defaults
LayerOnlyAttribs(entity) ==
    [layer |-> entity.layer, color |-> "BYLAYER", linetype |-> "BYLAYER"]

NewLine(start, end, attribs) ==
    [type |-> "LINE", start |-> start, end |-> end, layer |-> attribs.layer,
     color |-> attribs.color, linetype |-> attribs.linetype]

NewPoly(coords, attribs) ==
    [type |-> "LWPOLYLINE", points |-> coords, closed |-> FALSE,
     layer |-> attribs.layer, color |-> attribs.color,
     linetype |-> attribs.linetype]

\* the msp.add_* calls of one rule call, in order, the (err - 1)-th one raising
AddCalls(news, err) ==
    IF err >= 2 /\ err - 1 <= Len(news)
    THEN [to_add |-> SubSeq(news, 1, err - 2), raised |-> TRUE]
    ELSE [to_add |-> news, raised |-> FALSE]

\* the except clause of the line and polyline rules: to_delete.append(entity)
AfterAdds(entity, to_delete, a) ==
    Result(IF a.raised THEN Append(to_delete, entity.id) ELSE to_delete, a.to_add)

LongEnough(coords) == Len(coords) >= 2

\* clip_line_entity without the GeometryCollection branch: a mixed intersection
\* falls to the final else and yields no replacement
clip_line_entity_NoCollection(entity, shp_polygon, err) ==
    IF ~IsPolygonal(shp_polygon) THEN Result(<<entity.id>>, <<>>)
    ELSE IF err = 1 THEN Result(<<entity.id>>, <<>>)
    ELSE
      LET line    == <<entity.start, entity.end>>
          clipped == Intersection(shp_polygon, line)
          type    == GeomType(clipped)
          parts   == SelectSeq(clipped.lines, LongEnough)
          news    == [m \in 1..Len(parts) |->
                        NewLine(parts[m][1], parts[m][Len(parts[m])],
                                FullAttribs(entity))]
      IN  IF ContainsLine(shp_polygon, line) THEN Result(<<>>, <<>>)
          ELSE IF type \in {"Empty", "Point"} THEN Result(<<entity.id>>, <<>>)
          ELSE IF type \in {"LineString", "MultiLineString"}
               THEN AfterAdds(entity, <<entity.id>>, AddCalls(news, err))
          ELSE Result(<<entity.id>>, <<>>)

clip_line_entity(entity, shp_polygon, err) ==
    IF ~IsPolygonal(shp_polygon) THEN Result(<<entity.id>>, <<>>)
    ELSE IF err = 1 THEN Result(<<entity.id>>, <<>>)
    ELSE
      LET line    == <<entity.start, entity.end>>
          clipped == Intersection(shp_polygon, line)
          type    == GeomType(clipped)
          parts   == SelectSeq(clipped.lines, LongEnough)
          news    == [m \in 1..Len(parts) |->
                        NewLine(parts[m][1], parts[m][Len(parts[m])],
                                FullAttribs(entity))]
      IN  IF ContainsLine(shp_polygon, line) THEN Result(<<>>, <<>>)
          ELSE IF type \in {"Empty", "Point"} THEN Result(<<entity.id>>, <<>>)
          ELSE IF type \in {"LineString", "MultiLineString", "GeometryCollection"}
               THEN AfterAdds(entity, <<entity.id>>, AddCalls(news, err))
          ELSE Result(<<entity.id>>, <<>>)

clip_lwpolyline_entity(entity, shp_polygon, err) ==
    IF ~IsPolygonal(shp_polygon) THEN Result(<<entity.id>>, <<>>)
    ELSE IF err = 1 THEN Result(<<entity.id>>, <<>>)
    ELSE IF Len(entity.points) < 2 THEN Result(<<entity.id>>, <<>>)
    ELSE
      LET p0      == entity.points
          points  == IF entity.closed /\ p0[1] # p0[Len(p0)]
                     THEN Append(p0, p0[1]) ELSE p0
          clipped == Intersection(shp_polygon, points)
          type    == GeomType(clipped)
          sub(c)  == IF Len(c) = 2
                     THEN NewLine(c[1], c[2], LayerOnlyAttribs(entity))
                     ELSE NewPoly(c, LayerOnlyAttribs(entity))
          parts   == SelectSeq(clipped.lines, LongEnough)
          news    == IF type = "LineString"
                     THEN <<NewPoly(clipped.lines[1], FullAttribs(entity))>>
                     ELSE IF type = "MultiLineString"
                     THEN [m \in 1..Len(parts) |-> sub(parts[m])]
                     ELSE <<>>
      IN  IF ContainsLine(shp_polygon, points) THEN Result(<<>>, <<>>)
          ELSE AfterAdds(entity, <<entity.id>>, AddCalls(news, err))

clip_circle_entity(entity, shp_polygon, err) ==
    IF ~IsPolygonal(shp_polygon) THEN Result(<<entity.id>>, <<>>)
    ELSE IF err >= 1 THEN Result(<<entity.id>>, <<>>)
    ELSE IF ~DiskIntersects(shp_polygon, entity.center, entity.radius)
         THEN Result(<<entity.id>>, <<>>)
    ELSE Result(<<>>, <<>>)

\* clip_arc_entity testing the center point instead of the buffered disk
clip_arc_entity_CenterOnly(entity, shp_polygon, err) ==
    IF ~IsPolygonal(shp_polygon) THEN Result(<<entity.id>>, <<>>)
    ELSE IF err >= 1 THEN Result(<<entity.id>>, <<>>)
    ELSE IF ~ContainsPoint(shp_polygon, entity.center)
         THEN Result(<<entity.id>>, <<>>)
    ELSE Result(<<>>, <<>>)

clip_arc_entity(entity, shp_polygon, err) ==
    IF ~IsPolygonal(shp_polygon) THEN Result(<<entity.id>>, <<>>)
    ELSE IF err >= 1 THEN Result(<<entity.id>>, <<>>)
    ELSE IF ~DiskIntersects(shp_polygon, entity.center, entity.radius)
         THEN Result(<<entity.id>>, <<>>)
    ELSE Result(<<>>, <<>>)

\* entity.dxf.insert exists and is a point
HasInsert(entity) == "insert" \in DOMAIN entity

clip_text_entity(entity, shp_polygon, err) ==
    IF ~IsPolygonal(shp_polygon) THEN Result(<<entity.id>>, <<>>)
    ELSE IF err >= 1 \/ ~HasInsert(entity) THEN Result(<<entity.id>>, <<>>)
    ELSE IF ~ContainsPoint(shp_polygon, entity.insert)
         THEN Result(<<entity.id>>, <<>>)
    ELSE Result(<<>>, <<>>)

\* path.path_type_flags & 2
FlagBit2(flags) == (flags \div 2) % 2 = 1

\* one edge of an edge path sets has_intersection
EdgeHit(edge, shp_polygon) ==
    IF edge.EDGE_TYPE = "LineEdge" THEN ContainsPoint(shp_polygon, edge.start)
    ELSE IF edge.EDGE_TYPE \in {"ArcEdge", "EllipseEdge"}
         THEN ContainsPoint(shp_polygon, edge.center)
    ELSE FALSE

\* one boundary path sets has_intersection
PathHit(path, shp_polygon) ==
    IF "vertices" \in DOMAIN path
    THEN /\ Len(path.vertices) >= 2
         /\ IF Len(path.vertices) > 2 /\ FlagBit2(path.path_type_flags)
            THEN PolygonIntersects(shp_polygon, path.vertices)
            ELSE LineIntersects(shp_polygon, path.vertices)
    ELSE IF "edges" \in DOMAIN path
         THEN \E i \in DOMAIN path.edges : EdgeHit(path.edges[i], shp_polygon)
    ELSE FALSE

\* clip_hatch_entity leaving the loop after its first path, hit or not
clip_hatch_entity_FirstPathOnly(entity, shp_polygon, err) ==
    IF ~IsPolygonal(shp_polygon) THEN Result(<<entity.id>>, <<>>)
    ELSE IF err >= 1 THEN Result(<<>>, <<>>)
    ELSE IF ~(Len(entity.paths) >= 1 /\ PathHit(entity.paths[1], shp_polygon))
         THEN Result(<<entity.id>>, <<>>)
    ELSE Result(<<>>, <<>>)

clip_hatch_entity(entity, shp_polygon, err) ==
    IF ~IsPolygonal(shp_polygon) THEN Result(<<entity.id>>, <<>>)
    ELSE IF err >= 1 THEN Result(<<>>, <<>>)
    ELSE IF ~(\E i \in DOMAIN entity.paths : PathHit(entity.paths[i], shp_polygon))
         THEN Result(<<entity.id>>, <<>>)
    ELSE Result(<<>>, <<>>)

clip_point_entity(entity, shp_polygon, err) ==
    IF ~IsPolygonal(shp_polygon) THEN Result(<<entity.id>>, <<>>)
    ELSE IF err >= 1 THEN Result(<<entity.id>>, <<>>)
    ELSE IF ~ContainsPoint(shp_polygon, entity.location)
         THEN Result(<<entity.id>>, <<>>)
    ELSE Result(<<>>, <<>>)

\* clip_block_entity has no try: an error in it is raised to its caller
clip_block_entity(block_entity, shp_polygon, err) ==
    IF err >= 1 THEN [to_delete |-> <<>>, to_add |-> <<>>, raised |-> TRUE]
    ELSE
      LET subs == SelectSeq(block_entity.sub_entities,
                            LAMBDA s : s.type = "HATCH")
          res  == [i \in 1..Len(subs) |-> clip_hatch_entity(subs[i], shp_polygon, 0)]
      IN  Result(Flatten([i \in 1..Len(subs) |-> res[i].to_delete]),
                 Flatten([i \in 1..Len(subs) |-> res[i].to_add]))

\* ------------------------------------------------------------ the classifier
\* the chain without its ARC branch: an arc falls to the final else
RuleOf_ArcUnhandled(entity_type) ==
    IF entity_type = "LINE" THEN "clip_line_entity"
    ELSE IF entity_type = "LWPOLYLINE" THEN "clip_lwpolyline_entity"
    ELSE IF entity_type = "CIRCLE" THEN "clip_circle_entity"
    ELSE IF entity_type \in {"TEXT", "MTEXT", "DIMENSION"} THEN "clip_text_entity"
    ELSE IF entity_type = "HATCH" THEN "clip_hatch_entity"
    ELSE IF entity_type = "POINT" THEN "clip_point_entity"
    ELSE "clip_text_entity"

\* the if / elif chain of process_clip_task: the rule called for a type tag
RuleOf(entity_type) ==
    IF entity_type = "LINE" THEN "clip_line_entity"
    ELSE IF entity_type = "LWPOLYLINE" THEN "clip_lwpolyline_entity"
    ELSE IF entity_type = "CIRCLE" THEN "clip_circle_entity"
    ELSE IF entity_type = "ARC" THEN "clip_arc_entity"
    ELSE IF entity_type \in {"TEXT", "MTEXT", "DIMENSION"} THEN "clip_text_entity"
    ELSE IF entity_type = "HATCH" THEN "clip_hatch_entity"
    ELSE IF entity_type = "POINT" THEN "clip_point_entity"
    ELSE "clip_text_entity"

\* the call of the rule named rule
CallRule(rule, entity, shp_polygon, err) ==
    CASE rule = "clip_line_entity" -> clip_line_entity(entity, shp_polygon, err)
      [] rule = "clip_lwpolyline_entity" -> clip_lwpolyline_entity(entity, shp_polygon, err)
      [] rule = "clip_circle_entity" -> clip_circle_entity(entity, shp_polygon, err)
      [] rule = "clip_arc_entity" -> clip_arc_entity(entity, shp_polygon, err)
      [] rule = "clip_text_entity" -> clip_text_entity(entity, shp_polygon, err)
      [] rule = "clip_hatch_entity" -> clip_hatch_entity(entity, shp_polygon, err)
      [] rule = "clip_point_entity" -> clip_point_entity(entity, shp_polygon, err)
      [] rule = "clip_block_entity" -> clip_block_entity(entity, shp_polygon, err)

\* ------------------------------------------------- bounded inputs of the rules
Styles ==
    {[layer |-> "0", color |-> "BYLAYER", linetype |-> "BYLAYER"],
     [layer |-> "A", color |-> "red", linetype |-> "DASHED"]}

AxisAligned(p, q) == p # q /\ (p[1] = q[1] \/ p[2] = q[2])

\* the line-string visits no grid point twice
Simple(points) ==
    LET u == Units(points)
    IN  \A i, j \in 1..Len(u) : i # j => u[i].pt # u[j].pt

RECURSIVE Paths(_)
\* the simple axis-aligned vertex lists of n vertices
Paths(n) ==
    IF n = 0 THEN {<<>>}
    ELSE IF n = 1 THEN {<<p>> : p \in Pts}
    ELSE {Append(ps, q) : <<ps, q>> \in
            {x \in Paths(n - 1) \X Pts :
                AxisAligned(x[1][n - 1], x[2]) /\ Simple(Append(x[1], x[2]))}}

OpenPaths == UNION {Paths(n) : n \in 0..MaxVerts}

\* the corners of r as a vertex list, counter-clockwise from (x1, y1)
Corners(r) == <<<<r.x1, r.y1>>, <<r.x2, r.y1>>, <<r.x2, r.y2>>, <<r.x1, r.y2>>>>

PolygonRegions == {[kind |-> "Polygon", rects |-> {r}] : r \in Rects}

MultiPolygonRegions ==
    {[kind |-> "MultiPolygon", rects |-> {r, s}] : <<r, s>> \in
        {x \in Rects \X Rects : RectsDisjoint(x[1], x[2])}}

Regions == PolygonRegions \cup MultiPolygonRegions

LineEntities(h) ==
    {[id |-> h, type |-> "LINE", start |-> l[1], end |-> l[2],
      layer |-> st.layer, color |-> st.color, linetype |-> st.linetype] :
        <<l, st>> \in Paths(2) \X Styles}

PolylineEntities(h) ==
    {[id |-> h, type |-> "LWPOLYLINE", points |-> ps, closed |-> FALSE,
      layer |-> st.layer, color |-> st.color, linetype |-> st.linetype] :
        <<ps, st>> \in OpenPaths \X Styles}
    \cup
    {[id |-> h, type |-> "LWPOLYLINE", points |-> Corners(r), closed |-> TRUE,
      layer |-> st.layer, color |-> st.color, linetype |-> st.linetype] :
        <<r, st>> \in Rects \X Styles}

\* a CIRCLE has a center and a radius; an ARC also its two angles, here the left
\* half (90 to 270 degrees) or the right half (270 to 90) of its circle
CircularEntities(h) ==
    {[id |-> h, type |-> "CIRCLE", center |-> c, radius |-> rad] :
        <<c, rad>> \in Pts \X (1..2)}
    \cup {[id |-> h, type |-> "ARC", center |-> c, radius |-> rad,
             start_angle |-> a, end_angle |-> (a + 180) % 360] :
            <<c, rad, a>> \in Pts \X (1..2) \X {90, 270}}

\* TEXT, MTEXT and INSERT carry an insertion point (dxf.insert), a DIMENSION
\* may or has only its definition point, and the other types without a rule of
\* their own (SPLINE, ELLIPSE, ...) carry none
AnchoredEntities(h) ==
    {[id |-> h, type |-> t, insert |-> p] :
        <<t, p>> \in {"TEXT", "MTEXT", "DIMENSION", "INSERT"} \X Pts}
    \cup {[id |-> h, type |-> "DIMENSION", defpoint |-> p] : p \in Pts}
    \cup {[id |-> h, type |-> "SPLINE", control_points |-> <<p>>] : p \in Pts}

PointEntities(h) == {[id |-> h, type |-> "POINT", location |-> p] : p \in Pts}

HatchEdges ==
    {[EDGE_TYPE |-> "LineEdge", start |-> p] : p \in Pts}
    \cup {[EDGE_TYPE |-> t, center |-> p] : <<t, p>> \in {"ArcEdge", "EllipseEdge"} \X Pts}
    \cup {[EDGE_TYPE |-> "SplineEdge", control_points |-> <<p>>] : p \in Pts}

HatchPaths ==
    {[vertices |-> Corners(r), path_type_flags |-> f] : <<r, f>> \in Rects \X {1, 3}}
    \cup {[vertices |-> ps, path_type_flags |-> 1] : ps \in Paths(1) \cup Paths(2)}
    \cup {[edges |-> <<e>>] : e \in HatchEdges}

HatchEntities(h) ==
    {[id |-> h, type |-> "HATCH", paths |-> <<pa>>] : pa \in HatchPaths}
    \cup {[id |-> h, type |-> "HATCH",
             paths |-> <<[vertices |-> <<<<0, 0>>>>, path_type_flags |-> 1], pa>>] :
            pa \in HatchPaths}

RuleEntities(h) ==
    LineEntities(h) \cup PolylineEntities(h) \cup CircularEntities(h)
    \cup AnchoredEntities(h) \cup PointEntities(h) \cup HatchEntities(h)

\* a closed polyline is taken only where its ring does not start inside the region
\* and leave it (the library may then return the first part in two pieces)
RingOk(entity, region) ==
    (entity.type = "LWPOLYLINE" /\ entity.closed) =>
        \/ ~CoversPoint(region, entity.points[1])
        \/ ContainsLine(region, Append(entity.points, entity.points[1]))

\* ------------------------------------------------------------------- state
VARIABLES
    rule_in, rule_out,  \* one rule call: its input and what it returned
    mode,               \* "server" (Flask) or "gui" (ClipGui), chosen in __main__;
                        \* "exited" once the gui has been closed
    tasks,              \* the keys of the dict tasks
    task,               \* the ClipTask objects, by task id
    task_lock,          \* who holds task_lock
    clock,              \* the number of datetime.now() calls that set an end time
    worker,             \* the locals of each process_clip_task thread
    disk,               \* what has been written to each task's output path
    req,                \* the request (or Tk callback) in progress
    resp,               \* the last response returned
    gui                 \* ClipGui._task_id and ClipGui._running

rvars == <<rule_in, rule_out>>

tvars == <<mode, tasks, task, task_lock, clock, worker, disk, req, resp, gui>>

vars == <<rule_in, rule_out, mode, tasks, task, task_lock, clock, worker, disk,
          req, resp, gui>>

NoCall == [rule |-> "none"]

\* --------------------------------------------- the rules as a state machine
InitRules ==
    /\ rule_in \in {x \in [entity : RuleEntities(1), region : Regions, err : 0..MaxErr] :
                        RingOk(x.entity, x.region)}
    /\ rule_out = NoCall
    /\ mode = "server"
    /\ tasks = {}
    /\ task = <<>>
    /\ task_lock = <<"free", 0>>
    /\ clock = 0
    /\ worker = <<>>
    /\ disk = <<>>
    /\ req = <<>>
    /\ resp = <<>>
    /\ gui = <<>>

\* one pass of the orchestrator's loop body: classify the entity, call its rule
ClassifyAndClip ==
    /\ rule_out = NoCall
    /\ LET rule == RuleOf(rule_in.entity.type)
       IN  rule_out' = [rule |-> rule,
                        res  |-> CallRule(rule, rule_in.entity, rule_in.region, rule_in.err)]
    /\ UNCHANGED <<rule_in, tvars>>

NextRules == ClassifyAndClip

SpecRules == InitRules /\ [][NextRules]_vars

\* the rule calls on LINE entities, without an error or with one in the geometry
InitLines ==
    /\ rule_in \in [entity : LineEntities(1), region : Regions, err : {0, 1}]
    /\ rule_out = NoCall
    /\ mode = "server"
    /\ tasks = {}
    /\ task = <<>>
    /\ task_lock = <<"free", 0>>
    /\ clock = 0
    /\ worker = <<>>
    /\ disk = <<>>
    /\ req = <<>>
    /\ resp = <<>>
    /\ gui = <<>>

SpecLines == InitLines /\ [][NextRules]_vars

\* the rule calls on CIRCLE and ARC entities
InitCircles ==
    /\ rule_in \in [entity : CircularEntities(1), region : Regions, err : 0..MaxErr]
    /\ rule_out = NoCall
    /\ mode = "server"
    /\ tasks = {}
    /\ task = <<>>
    /\ task_lock = <<"free", 0>>
    /\ clock = 0
    /\ worker = <<>>
    /\ disk = <<>>
    /\ req = <<>>
    /\ resp = <<>>
    /\ gui = <<>>

SpecCircles == InitCircles /\ [][NextRules]_vars

\* the rule calls on HATCH entities that meet no internal error
InitHatches ==
    /\ rule_in \in [entity : HatchEntities(1), region : Regions, err : {0}]
    /\ rule_out = NoCall
    /\ mode = "server"
    /\ tasks = {}
    /\ task = <<>>
    /\ task_lock = <<"free", 0>>
    /\ clock = 0
    /\ worker = <<>>
    /\ disk = <<>>
    /\ req = <<>>
    /\ resp = <<>>
    /\ gui = <<>>

SpecHatches == InitHatches /\ [][NextRules]_vars

\* -------------------------------------------------- properties of the rules
Called == rule_out # NoCall

\* the maximal runs <<i, j>> of consecutive unit edges of the line-string that lie
\* in the region: the line-string components of line-string /\ region
InsideRuns(region, points) ==
    LET u      == Units(points)
        n      == Len(u)
        ins(i) == EdgeIn(region, u[i].pt, u[i + 1].pt)
    IN  {run \in (1..(n - 1)) \X (1..(n - 1)) :
            /\ run[1] <= run[2]
            /\ \A k \in run[1]..run[2] : ins(k)
            /\ (run[1] = 1 \/ ~ins(run[1] - 1))
            /\ (run[2] = n - 1 \/ ~ins(run[2] + 1))}

\* the given vertices of the line-string inside run, its two ends included
RunCoords(points, run) ==
    LET u   == Units(points)
        mid == SortedSeq({k \in (run[1] + 1)..run[2] : u[k].vtx})
    IN  <<u[run[1]].pt>> \o [m \in 1..Len(mid) |-> u[mid[m]].pt] \o <<u[run[2] + 1].pt>>

\* every grid point of the line-string lies in the interior of the region
StrictlyInside(region, points) ==
    /\ Len(points) >= 1
    /\ \A k \in DOMAIN Units(points) : ContainsPoint(region, Units(points)[k].pt)

\* the number of msp.add_* calls the rule makes for the input when none raises
AddCallCount == Len(CallRule(rule_out.rule, rule_in.entity, rule_in.region, 0).to_add)

\* the call of rule_in met its internal error
ErrorOccurred ==
    /\ Called
    /\ \/ rule_in.err = 1
       \/ rule_in.err >= 2 /\ rule_in.err - 1 <= AddCallCount

\* C6: if an internal error occurs while a rule evaluates an entity, nothing is
\* raised to the orchestrator and the disposition is Drop: the entity is in the
\* deletion set and no replacement entity is produced for it.
C6_ErrorDowngradesToDrop ==
    ErrorOccurred =>
        /\ ~rule_out.res.raised
        /\ rule_in.entity.id \in Range(rule_out.res.to_delete)
        /\ rule_out.res.to_add = <<>>

\* the geometry of the entity lies wholly inside the region
WhollyInside(entity, region) ==
    CASE entity.type = "LINE" -> StrictlyInside(region, <<entity.start, entity.end>>)
      [] entity.type = "LWPOLYLINE" ->
            StrictlyInside(region, IF entity.closed
                                   THEN Append(entity.points, entity.points[1])
                                   ELSE entity.points)
      [] entity.type \in {"CIRCLE", "ARC"} ->
            \E r \in region.rects :
                /\ r.x1 <= entity.center[1] - entity.radius
                /\ entity.center[1] + entity.radius <= r.x2
                /\ r.y1 <= entity.center[2] - entity.radius
                /\ entity.center[2] + entity.radius <= r.y2
      [] entity.type = "POINT" -> ContainsPoint(region, entity.location)
      [] entity.type = "HATCH" ->
            \A i \in DOMAIN entity.paths :
                LET pa == entity.paths[i]
                IN  IF "vertices" \in DOMAIN pa
                    THEN \A k \in DOMAIN pa.vertices :
                            ContainsPoint(region, pa.vertices[k])
                    ELSE \A k \in DOMAIN pa.edges :
                            LET e == pa.edges[k]
                            IN  ContainsPoint(region,
                                    IF e.EDGE_TYPE = "LineEdge" THEN e.start
                                    ELSE IF e.EDGE_TYPE = "SplineEdge"
                                         THEN e.control_points[1]
                                    ELSE e.center)
      [] OTHER ->
            ContainsPoint(region,
                IF "insert" \in DOMAIN entity THEN entity.insert
                ELSE IF "defpoint" \in DOMAIN entity THEN entity.defpoint
                ELSE entity.control_points[1])

\* C7: every entity whose geometry lies wholly inside the region is kept (no
\* deletion, no addition), whatever its type, vertex count or path kind.
C7_InsideIsKept ==
    (Called /\ rule_in.err = 0 /\ WhollyInside(rule_in.entity, rule_in.region)) =>
        /\ rule_out.res.to_delete = <<>>
        /\ rule_out.res.to_add = <<>>

\* Scenario A on the grid: grid point <<x, y>> stands for the point (x - 1, y / 2),
\* so the unit square is the rectangle [1, 2] x [0, 2]
UnitSquare == [kind |-> "Polygon", rects |-> {[x1 |-> 1, y1 |-> 0, x2 |-> 2, y2 |-> 2]}]

IsScenarioA ==
    /\ rule_in.entity.type = "LINE"
    /\ rule_in.entity.start = <<0, 1>> /\ rule_in.entity.end = <<3, 1>>
    /\ rule_in.region = UnitSquare
    /\ rule_in.err = 0

\* the line crosses the boundary of a one-polygon region exactly once: one end is
\* in its interior, the other is outside the closed region
CrossesOnce(entity, region) ==
    /\ region.kind = "Polygon"
    /\ \/ ContainsPoint(region, entity.start) /\ ~CoversPoint(region, entity.end)
       \/ ContainsPoint(region, entity.end) /\ ~CoversPoint(region, entity.start)

\* p lies on the boundary of the region
OnBoundary(region, p) == CoversPoint(region, p) /\ ~ContainsPoint(region, p)

\* C9: line rule. A line the region contains is kept; any other line is removed
\* and replaced by exactly one Line per line-string component of segment /\ region,
\* from the component's first to its last coordinate (by nothing when there is no
\* such component). A line crossing the boundary once gives one Line from the
\* boundary to the inside endpoint; Scenario A gives the Line (0,0.5)-(1,0.5).
C9_LineRule ==
    (Called /\ rule_in.entity.type = "LINE" /\ rule_in.err = 0) =>
        LET e    == rule_in.entity
            reg  == rule_in.region
            line == <<e.start, e.end>>
            runs == InsideRuns(reg, line)
            res  == rule_out.res
        IN  /\ ~res.raised
            /\ IF ContainsLine(reg, line)
               THEN res.to_delete = <<>> /\ res.to_add = <<>>
               ELSE /\ res.to_delete = <<e.id>>
                    /\ Len(res.to_add) = Cardinality(runs)
                    /\ \A m \in DOMAIN res.to_add : res.to_add[m].type = "LINE"
                    /\ \A run \in runs : \E m \in DOMAIN res.to_add :
                          /\ res.to_add[m].start = RunCoords(line, run)[1]
                          /\ res.to_add[m].end =
                                RunCoords(line, run)[Len(RunCoords(line, run))]
            /\ CrossesOnce(e, reg) =>
                  /\ Len(res.to_add) = 1
                  /\ \/ res.to_add[1].start = e.start /\ OnBoundary(reg, res.to_add[1].end)
                     \/ res.to_add[1].end = e.end /\ OnBoundary(reg, res.to_add[1].start)
            /\ IsScenarioA =>
                  /\ Len(res.to_add) = 1
                  /\ res.to_add[1].start = <<1, 1>> /\ res.to_add[1].end = <<2, 1>>

\* Scenario A has been clipped: the line is removed and one Line replaces it
C9_Witness ==
    /\ Called /\ IsScenarioA
    /\ rule_out.res.to_delete = <<1>> /\ Len(rule_out.res.to_add) = 1

\* C10: polyline rule. A polyline (closed back to its first vertex when marked
\* closed) the region contains is kept; any other is removed and its replacement
\* set has exactly one entity per line-string component of polyline /\ region,
\* whatever the type of the intersection: a polyline for a single part, and of
\* several parts a Line per 2-point part and a polyline per longer part.
C10_PolylineRule ==
    (Called /\ rule_in.entity.type = "LWPOLYLINE" /\ rule_in.err = 0
        /\ Len(rule_in.entity.points) >= 2) =>
        LET e    == rule_in.entity
            reg  == rule_in.region
            line == IF e.closed THEN Append(e.points, e.points[1]) ELSE e.points
            runs == InsideRuns(reg, line)
            res  == rule_out.res
        IN  IF ContainsLine(reg, line)
            THEN res.to_delete = <<>> /\ res.to_add = <<>>
            ELSE /\ res.to_delete = <<e.id>>
                 /\ Len(res.to_add) = Cardinality(runs)
                 /\ \A run \in runs : \E m \in DOMAIN res.to_add :
                       LET c == RunCoords(line, run)
                       IN  IF Cardinality(runs) > 1 /\ Len(c) = 2
                           THEN /\ res.to_add[m].type = "LINE"
                                /\ res.to_add[m].start = c[1]
                                /\ res.to_add[m].end = c[2]
                           ELSE /\ res.to_add[m].type = "LWPOLYLINE"
                                /\ res.to_add[m].points = c

\* some point of the closed region is within the radius of the center
DiskMeetsRegion(entity, region) ==
    \E p \in Pts :
        /\ CoversPoint(region, p)
        /\ (p[1] - entity.center[1]) * (p[1] - entity.center[1])
             + (p[2] - entity.center[2]) * (p[2] - entity.center[2])
               <= entity.radius * entity.radius

\* every point of the arc itself (not of its disk) is outside the closed region:
\* the arc is the left or the right half of its circle and every rectangle of
\* the region lies strictly on the other side of the center
ArcOutside(entity, region) ==
    /\ entity.type = "ARC"
    /\ \A r \in region.rects :
          IF entity.start_angle = 90 THEN r.x1 > entity.center[1]
          ELSE r.x2 < entity.center[1]

\* C11: a circle or an arc is dropped iff the full disk of its center and radius
\* has no intersection with the region, and kept otherwise; the rule never
\* produces a replacement, so an arc whose disk overlaps the region is kept even
\* when the arc itself lies outside.
C11_CircularRule ==
    (Called /\ rule_in.entity.type \in {"CIRCLE", "ARC"} /\ rule_in.err = 0) =>
        /\ ~rule_out.res.raised
        /\ rule_out.res.to_add = <<>>
        /\ rule_out.res.to_delete =
              IF DiskMeetsRegion(rule_in.entity, rule_in.region)
              THEN <<>> ELSE <<rule_in.entity.id>>

\* an arc lying outside the region whose disk overlaps it has been kept
C11_Witness ==
    /\ Called /\ rule_in.err = 0
    /\ ArcOutside(rule_in.entity, rule_in.region)
    /\ DiskMeetsRegion(rule_in.entity, rule_in.region)
    /\ rule_out.res.to_delete = <<>> /\ rule_out.res.to_add = <<>>

\* the designated anchor of an entity: its insertion point, for a dimension without
\* one its definition point, for a spline its first control point
AnchorOf(entity) ==
    IF "insert" \in DOMAIN entity THEN entity.insert
    ELSE IF "defpoint" \in DOMAIN entity THEN entity.defpoint
    ELSE entity.control_points[1]

\* C12: a point entity is kept iff the region contains its location, and a text,
\* multi-line text, dimension or unclassified entity is kept iff the region
\* contains its anchor point; otherwise the entity is dropped. Neither rule
\* produces a replacement.
C12_PointAndAnchorRule ==
    (Called /\ rule_in.err = 0
        /\ rule_in.entity.type \notin {"LINE", "LWPOLYLINE", "CIRCLE", "ARC", "HATCH"}) =>
        LET e      == rule_in.entity
            anchor == IF e.type = "POINT" THEN e.location ELSE AnchorOf(e)
        IN  /\ ~rule_out.res.raised
            /\ rule_out.res.to_add = <<>>
            /\ rule_out.res.to_delete =
                  IF ContainsPoint(rule_in.region, anchor) THEN <<>> ELSE <<e.id>>

\* the boundary path and the closed region share a point. A vertex list flagged
\* as a loop with 3 or more vertices is the filled rectangle of its corners, any
\* other of 2 or more vertices is the line-string through them, and one of fewer
\* vertices has no geometry; an edge sequence is sampled at the start of its line
\* edges and the center of its arc and ellipse edges, which must be interior.
PathMeetsRegion(path, region) ==
    IF "vertices" \in DOMAIN path
    THEN /\ Len(path.vertices) >= 2
         /\ IF Len(path.vertices) >= 3 /\ path.path_type_flags \in {2, 3}
            THEN LET b == BBox(path.vertices)
                 IN  \E p \in Pts : InRect(p, b) /\ CoversPoint(region, p)
            ELSE LET u == Units(path.vertices)
                 IN  \E k \in DOMAIN u : CoversPoint(region, u[k].pt)
    ELSE \E k \in DOMAIN path.edges :
            LET e == path.edges[k]
            IN  \/ e.EDGE_TYPE = "LineEdge" /\ ContainsPoint(region, e.start)
                \/ e.EDGE_TYPE \in {"ArcEdge", "EllipseEdge"}
                      /\ ContainsPoint(region, e.center)

\* C13: a fill is kept whole iff at least one of its boundary paths intersects the
\* region (a vertex list as a closed polygon or else an open line-string, an edge
\* sequence by its sampled points), and dropped if none does; the rule never
\* produces a replacement.
C13_HatchRule ==
    (Called /\ rule_in.entity.type = "HATCH" /\ rule_in.err = 0) =>
        LET e == rule_in.entity
        IN  /\ ~rule_out.res.raised
            /\ rule_out.res.to_add = <<>>
            /\ rule_out.res.to_delete =
                  IF \E i \in DOMAIN e.paths : PathMeetsRegion(e.paths[i], rule_in.region)
                  THEN <<>> ELSE <<e.id>>

\* a fill whose first path has no geometry and whose second path is an edge
\* sequence with a sampled point inside the region has been kept
C13_Witness ==
    /\ Called /\ rule_in.entity.type = "HATCH" /\ rule_in.err = 0
    /\ Len(rule_in.entity.paths) = 2
    /\ "edges" \in DOMAIN rule_in.entity.paths[2]
    /\ PathMeetsRegion(rule_in.entity.paths[2], rule_in.region)
    /\ rule_out.res.to_delete = <<>> /\ rule_out.res.to_add = <<>>

\* C14: a block reference (INSERT) is evaluated by the block-reference rule, which
\* applies the fill rule to the fill sub-entities of the block; the reference
\* itself is left unmodified, never dropped on the basis of its insertion point.
C14_BlockReferenceRule ==
    (Called /\ rule_in.entity.type = "INSERT" /\ rule_in.err = 0) =>
        /\ rule_out.rule = "clip_block_entity"
        /\ rule_in.entity.id \notin Range(rule_out.res.to_delete)

\* C15: every replacement entity the line rule or the polyline rule creates
\* carries the layer, color and line-type of its source entity.
C15_StyleInherited ==
    (Called /\ rule_in.entity.type \in {"LINE", "LWPOLYLINE"}) =>
        \A m \in DOMAIN rule_out.res.to_add :
            /\ rule_out.res.to_add[m].layer = rule_in.entity.layer
            /\ rule_out.res.to_add[m].color = rule_in.entity.color
            /\ rule_out.res.to_add[m].linetype = rule_in.entity.linetype

\* ------------------------------------------------------------ the task table
MaxTasks == 1

BatchSize == 1000

TaskIds == 1..MaxTasks

Free == <<"free", 0>>

\* the thread running process_clip_task(t)
Wk(t) == <<"worker", t>>

\* the thread serving the request in progress (in gui mode: the Tk main loop)
Rq == <<"req", 0>>

NoneVal == "None"

NoRegion == [kind |-> "None", rects |-> {}]

Msg(kind, a, b) == [kind |-> kind, a |-> a, b |-> b]

\* a task id no ClipTask has been made for
NoTask ==
    [input_dxf |-> [ok |-> FALSE, entities |-> <<>>],
     shp_path |-> [readable |-> FALSE, polygons |-> {}],
     output_path |-> "", status |-> "none", progress |-> 0, total |-> 0,
     message |-> Msg("none", 0, 0), error |-> NoneVal, end_time |-> 0]

\* ClipTask.__init__
ClipTask(input_dxf, shp_path, output_path) ==
    [input_dxf |-> input_dxf, shp_path |-> shp_path, output_path |-> output_path,
     status |-> "pending", progress |-> 0, total |-> 0,
     message |-> Msg("waiting", 0, 0), error |-> NoneVal, end_time |-> 0]

\* the locals of a process_clip_task thread that has not been started
NoWorker ==
    [pc |-> "idle", shp_polygon |-> NoRegion, msp |-> <<>>, entity_list |-> <<>>,
     idx |-> 0, all_to_delete |-> <<>>, all_to_add |-> <<>>, deleted_count |-> 0,
     di |-> 0, ai |-> 0, exc |-> NoneVal, next_handle |-> 0, evaluated |-> <<>>]

\* no file: nothing has been written for the task; a file has the path it was
\* written to and the format of its content
NoFile == [written |-> FALSE, entities |-> <<>>, path |-> "", format |-> ""]

\* file_path.lower().endswith('.dwg')
is_dwg_file(file_path) == file_path \in {"out.dwg"}

\* save_cad_file's fallback name: output_path.rsplit('.', 1)[0] + '.dxf'
DxfPathOf(output_path) == IF output_path = "out.dwg" THEN "out.dxf" ELSE output_path

IdleReq ==
    [op |-> "none", pc |-> "none", task_id |-> 0, ref |-> 0, status |-> NoneVal,
     progress |-> 0, total |-> 0, message |-> Msg("none", 0, 0), error |-> NoneVal]

NoResp ==
    [op |-> "none", code |-> 0, task_id |-> 0, status |-> NoneVal, progress |-> 0,
     total |-> 0, message |-> Msg("none", 0, 0), error |-> NoneVal,
     body |-> NoFile, list |-> <<>>]

\* load_shp without the tests of lines 201-202 and 206-215: the union is
\* returned whatever its type, an empty GeometryCollection for no polygon
load_shp_AnyType(shp_path) ==
    IF ~shp_path.readable THEN NoRegion
    ELSE [kind  |-> IF shp_path.polygons = {} THEN "GeometryCollection"
                    ELSE IF Cardinality(shp_path.polygons) = 1
                    THEN "Polygon" ELSE "MultiPolygon",
          rects |-> shp_path.polygons]

\* load_shp: None when the file cannot be read or holds no polygon, else the
\* union of its polygons
load_shp(shp_path) ==
    IF ~shp_path.readable \/ shp_path.polygons = {} THEN NoRegion
    ELSE [kind  |-> IF Cardinality(shp_path.polygons) = 1
                    THEN "Polygon" ELSE "MultiPolygon",
          rects |-> shp_path.polygons]

\* progress = 15 + int((idx + 1) / entity_count * 70)
EvalProgress(k, n) == 15 + (70 * k) \div n

\* (idx + 1) % 1000 == 0 or idx == entity_count - 1
ProgressDue(idx, entity_count) ==
    (idx + 1) % BatchSize = 0 \/ idx = entity_count - 1

\* the entity with handle h is in the modelspace
InMsp(msp, h) == \E k \in DOMAIN msp : msp[k].id = h

\* msp.add_line / msp.add_lwpolyline: the new entities get fresh handles and are
\* appended to the modelspace
Created(news, next_handle) ==
    [m \in 1..Len(news) |-> [id |-> next_handle + m] @@ news[m]]

\* the outcomes of msp.delete_entity(entity): the entity is removed, or the call
\* raises; for an entity no longer in the modelspace the library either raises
\* or returns without effect
DeleteOutcomes(msp, h) == IF InMsp(msp, h) THEN {"ok", "fail"} ELSE {"noop", "fail"}

\* the outcomes of msp.add_entity(entity): the entity is appended (a second time
\* when it is in the modelspace already), or the call raises
AddOutcomes == {"ok", "fail"}

\* ----------------------------------------------- process_clip_task, by statement
WorkerStep(t, rec) ==
    /\ worker' = [worker EXCEPT ![t] = rec]
    /\ UNCHANGED <<rule_in, rule_out, mode, tasks, task, task_lock, clock, disk,
                   req, resp, gui>>

\* with task_lock:
WLock(t, from, to) ==
    /\ worker[t].pc = from
    /\ task_lock = Free
    /\ task_lock' = Wk(t)
    /\ worker' = [worker EXCEPT ![t].pc = to]
    /\ UNCHANGED <<rule_in, rule_out, mode, tasks, task, clock, disk, req, resp, gui>>

\* one assignment to a field of the task; release says it ends the with block
WSet(t, from, to, rec, release) ==
    /\ worker[t].pc = from
    /\ task' = [task EXCEPT ![t] = rec]
    /\ worker' = [worker EXCEPT ![t].pc = to]
    /\ task_lock' = IF release THEN Free ELSE task_lock
    /\ UNCHANGED <<rule_in, rule_out, mode, tasks, clock, disk, req, resp, gui>>

\* an exception in the try block: control goes to the except clause
Raise(w, e) == [w EXCEPT !.exc = e, !.pc = "L656"]

W543(t) == WLock(t, "L543", "L544")

W544(t) ==
    /\ worker[t].pc = "L544"
    /\ worker' = [worker EXCEPT ![t].pc = IF t \in tasks THEN "L547" ELSE "returned"]
    /\ task_lock' = IF t \in tasks THEN task_lock ELSE Free
    /\ UNCHANGED <<rule_in, rule_out, mode, tasks, task, clock, disk, req, resp, gui>>

W547(t) == WSet(t, "L547", "L548", [task[t] EXCEPT !.status = "processing"], FALSE)

W548(t) ==
    WSet(t, "L548", "L552", [task[t] EXCEPT !.message = Msg("processing", 0, 0)], TRUE)

W552(t) == WLock(t, "L552", "L553")

W553(t) ==
    WSet(t, "L553", "L554", [task[t] EXCEPT !.message = Msg("reading_shp", 0, 0)], FALSE)

W554(t) == WSet(t, "L554", "L556", [task[t] EXCEPT !.progress = 5], TRUE)

\* line 556 without the test of lines 557-558: a region of None is used as it is
W556_NoCheck(t) ==
    /\ worker[t].pc = "L556"
    /\ WorkerStep(t, [worker[t] EXCEPT !.shp_polygon = load_shp(task[t].shp_path),
                                       !.pc = "L561"])

W556(t) ==
    /\ worker[t].pc = "L556"
    /\ LET w == worker[t]
           shp_polygon == load_shp(task[t].shp_path)
       IN  WorkerStep(t, IF shp_polygon = NoRegion
                         THEN Raise(w, "shp_error")
                         ELSE [w EXCEPT !.shp_polygon = shp_polygon, !.pc = "L561"])

W561(t) == WLock(t, "L561", "L562")

W562(t) ==
    WSet(t, "L562", "L563", [task[t] EXCEPT !.message = Msg("reading_dxf", 0, 0)], FALSE)

W563(t) == WSet(t, "L563", "L565", [task[t] EXCEPT !.progress = 10], TRUE)

\* line 565 with a drawing that holds no entity treated as one that cannot be
\* read
W565_EmptyRaises(t) ==
    /\ worker[t].pc = "L565"
    /\ LET w == worker[t]
           f == task[t].input_dxf
       IN  WorkerStep(t, IF ~f.ok \/ f.entities = <<>>
                         THEN Raise(w, "cad_error")
                         ELSE [w EXCEPT !.msp = f.entities,
                                        !.entity_list = f.entities,
                                        !.next_handle = Len(f.entities),
                                        !.pc = "L572"])

W565(t) ==
    /\ worker[t].pc = "L565"
    /\ LET w == worker[t]
           f == task[t].input_dxf
       IN  WorkerStep(t, IF ~f.ok
                         THEN Raise(w, "cad_error")
                         ELSE [w EXCEPT !.msp = f.entities,
                                        !.entity_list = f.entities,
                                        !.next_handle = Len(f.entities),
                                        !.pc = "L572"])

W572(t) == WLock(t, "L572", "L573")

W573(t) ==
    WSet(t, "L573", "L574",
         [task[t] EXCEPT !.total = Len(worker[t].entity_list)], FALSE)

W574(t) ==
    WSet(t, "L574", "L575",
         [task[t] EXCEPT !.message = Msg("start", Len(worker[t].entity_list), 0)],
         FALSE)

W575(t) ==
    WSet(t, "L575", IF Len(worker[t].entity_list) = 0 THEN "L582" ELSE "L587",
         [task[t] EXCEPT !.progress = 15], TRUE)

W582(t) == WLock(t, "L582", "L583")

W583(t) ==
    WSet(t, "L583", "L584", [task[t] EXCEPT !.message = Msg("no_entities", 0, 0)], FALSE)

W584(t) == WSet(t, "L584", "L617", [task[t] EXCEPT !.progress = 85], TRUE)

\* the next statement after the loop body for index idx
AfterEntity(idx, entity_count) ==
    IF idx + 1 < entity_count THEN "L587" ELSE "L617"

\* the loop body with the loop running over the modelspace itself instead of
\* the list made of it at line 569: the entities the rule has inserted are
\* iterated too
AfterRule_LiveList(w, entity, rule, res) ==
    LET created == Created(res.to_add, w.next_handle)
        n       == Len(w.entity_list) + Len(created)
        w1      == [w EXCEPT !.msp = w.msp \o created,
                             !.entity_list = w.entity_list \o created,
                             !.next_handle = w.next_handle + Len(created),
                             !.evaluated = Append(w.evaluated,
                                                  [id |-> entity.id, rule |-> rule])]
        w2      == [w1 EXCEPT !.all_to_delete = w.all_to_delete \o res.to_delete,
                              !.all_to_add = w.all_to_add \o created]
    IN  IF res.raised THEN Raise(w1, "rule_error")
        ELSE IF ProgressDue(w.idx, n) THEN [w2 EXCEPT !.pc = "L612"]
        ELSE [w2 EXCEPT !.idx = w.idx + 1, !.pc = AfterEntity(w.idx, n)]

\* the rest of the loop body once the rule has returned res (or raised): the
\* rule's msp.add_* calls have inserted its new entities into the modelspace;
\* the two lists are extended
AfterRule(w, entity, rule, res) ==
    LET n       == Len(w.entity_list)
        created == Created(res.to_add, w.next_handle)
        w1      == [w EXCEPT !.msp = w.msp \o created,
                             !.next_handle = w.next_handle + Len(created),
                             !.evaluated = Append(w.evaluated,
                                                  [id |-> entity.id, rule |-> rule])]
        w2      == [w1 EXCEPT !.all_to_delete = w.all_to_delete \o res.to_delete,
                              !.all_to_add = w.all_to_add \o created]
    IN  IF res.raised THEN Raise(w1, "rule_error")
        ELSE IF ProgressDue(w.idx, n) THEN [w2 EXCEPT !.pc = "L612"]
        ELSE [w2 EXCEPT !.idx = w.idx + 1, !.pc = AfterEntity(w.idx, n)]

\* the rule call of the loop body for entity
ClipEntity(w, entity, err) ==
    AfterRule(w, entity, RuleOf(entity.type),
              CallRule(RuleOf(entity.type), entity, w.shp_polygon, err))

\* the body of the for loop for entity_list[idx]
W587(t) ==
    /\ worker[t].pc = "L587"
    /\ \E err \in 0..MaxErr :
          WorkerStep(t, ClipEntity(worker[t],
                                   worker[t].entity_list[worker[t].idx + 1], err))

W612(t) == WLock(t, "L612", "L613")

W613(t) ==
    WSet(t, "L613", "L614",
         [task[t] EXCEPT !.progress =
             EvalProgress(worker[t].idx + 1, Len(worker[t].entity_list))], FALSE)

W614(t) ==
    /\ worker[t].pc = "L614"
    /\ LET w == worker[t]
           n == Len(w.entity_list)
       IN  /\ task' = [task EXCEPT ![t].message = Msg("processed", w.idx + 1, n)]
           /\ worker' = [worker EXCEPT ![t].idx = w.idx + 1,
                                       ![t].pc = AfterEntity(w.idx, n)]
    /\ task_lock' = Free
    /\ UNCHANGED <<rule_in, rule_out, mode, tasks, clock, disk, req, resp, gui>>

W617(t) == WLock(t, "L617", "L618")

W618(t) ==
    WSet(t, "L618", "L619", [task[t] EXCEPT !.message = Msg("deleting", 0, 0)], FALSE)

\* the next statement of the mutation pass
MutationPc(w) ==
    IF w.di < Len(w.all_to_delete) THEN "L624"
    ELSE IF w.ai < Len(w.all_to_add) THEN "L630"
    ELSE "L634"

W619(t) ==
    WSet(t, "L619", MutationPc(worker[t]), [task[t] EXCEPT !.progress = 85], TRUE)

\* lines 622-627 without the try: a failing msp.delete_entity raises to the
\* except clause of the task
W624_NoTry(t) ==
    /\ worker[t].pc = "L624"
    /\ LET w == worker[t]
           h == w.all_to_delete[w.di + 1]
       IN  \E outcome \in DeleteOutcomes(w.msp, h) :
            LET w1 == [w EXCEPT
                         !.msp = IF outcome = "ok"
                                 THEN SelectSeq(w.msp, LAMBDA e : e.id # h)
                                 ELSE w.msp,
                         !.deleted_count = IF outcome = "fail"
                                           THEN w.deleted_count
                                           ELSE w.deleted_count + 1,
                         !.di = w.di + 1]
            IN  WorkerStep(t, IF outcome = "fail" THEN Raise(w, "delete_error")
                              ELSE [w1 EXCEPT !.pc = MutationPc(w1)])

\* msp.delete_entity(entity); deleted_count += 1, or the except clause
W624(t) ==
    /\ worker[t].pc = "L624"
    /\ LET w == worker[t]
           h == w.all_to_delete[w.di + 1]
       IN  \E outcome \in DeleteOutcomes(w.msp, h) :
            LET w1 == [w EXCEPT
                         !.msp = IF outcome = "ok"
                                 THEN SelectSeq(w.msp, LAMBDA e : e.id # h)
                                 ELSE w.msp,
                         !.deleted_count = IF outcome = "fail"
                                           THEN w.deleted_count
                                           ELSE w.deleted_count + 1,
                         !.di = w.di + 1]
            IN  WorkerStep(t, [w1 EXCEPT !.pc = MutationPc(w1)])

\* msp.add_entity(entity), or the except clause
W630(t) ==
    /\ worker[t].pc = "L630"
    /\ LET w == worker[t]
           e == w.all_to_add[w.ai + 1]
       IN  \E outcome \in AddOutcomes :
            LET w1 == [w EXCEPT
                         !.msp = IF outcome = "ok" THEN Append(w.msp, e) ELSE w.msp,
                         !.ai = w.ai + 1]
            IN  WorkerStep(t, [w1 EXCEPT !.pc = MutationPc(w1)])

W634(t) == WLock(t, "L634", "L635")

W635(t) ==
    WSet(t, "L635", "L636", [task[t] EXCEPT !.message = Msg("saving", 0, 0)], FALSE)

W636(t) == WSet(t, "L636", "L639", [task[t] EXCEPT !.progress = 95], TRUE)

\* lines 639-643 with one output file for all the tasks instead of
\* task.output_path
W639_OneOutputFile(t) ==
    /\ worker[t].pc = "L639"
    /\ \E ok \in BOOLEAN :
        /\ worker' = [worker EXCEPT ![t] =
                        IF ok THEN [@ EXCEPT !.pc = "L646"] ELSE Raise(@, "save_error")]
        /\ disk' = IF ok
                   THEN [s \in DOMAIN disk |-> [written |-> TRUE,
                                                entities |-> worker[t].msp,
                                                path |-> task[t].output_path,
                                                format |-> "DXF"]]
                   ELSE disk
    /\ UNCHANGED <<rule_in, rule_out, mode, tasks, task, task_lock, clock, req,
                   resp, gui>>

\* os.makedirs and doc.saveas(task.output_path): the file is written, or one of
\* the two raises
W639(t) ==
    /\ worker[t].pc = "L639"
    /\ \E ok \in BOOLEAN :
        /\ worker' = [worker EXCEPT ![t] =
                        IF ok THEN [@ EXCEPT !.pc = "L646"] ELSE Raise(@, "save_error")]
        /\ disk' = IF ok
                   THEN [disk EXCEPT ![t] = [written |-> TRUE,
                                             entities |-> worker[t].msp,
                                             path |-> task[t].output_path,
                                             format |-> "DXF"]]
                   ELSE disk
    /\ UNCHANGED <<rule_in, rule_out, mode, tasks, task, task_lock, clock, req,
                   resp, gui>>

W646(t) == WLock(t, "L646", "L647")

W647(t) == WSet(t, "L647", "L648", [task[t] EXCEPT !.status = "completed"], FALSE)

W648(t) == WSet(t, "L648", "L649", [task[t] EXCEPT !.progress = 100], FALSE)

W649(t) ==
    WSet(t, "L649", "L650",
         [task[t] EXCEPT !.message =
             Msg("done", worker[t].deleted_count, Len(worker[t].all_to_add))],
         FALSE)

\* task.end_time = datetime.now(), the last statement of a with block
WEnd(t, from) ==
    /\ worker[t].pc = from
    /\ clock' = clock + 1
    /\ task' = [task EXCEPT ![t].end_time = clock + 1]
    /\ worker' = [worker EXCEPT ![t].pc = "done"]
    /\ task_lock' = Free
    /\ UNCHANGED <<rule_in, rule_out, mode, tasks, disk, req, resp, gui>>

W650(t) == WEnd(t, "L650")

W656(t) == WLock(t, "L656", "L657")

W657(t) == WSet(t, "L657", "L658", [task[t] EXCEPT !.status = "failed"], FALSE)

W658(t) == WSet(t, "L658", "L659", [task[t] EXCEPT !.error = worker[t].exc], FALSE)

W659(t) ==
    WSet(t, "L659", "L660", [task[t] EXCEPT !.message = Msg("failed", 0, 0)], FALSE)

W660(t) == WEnd(t, "L660")

process_clip_task(t) ==
    \/ W543(t) \/ W544(t) \/ W547(t) \/ W548(t)
    \/ W552(t) \/ W553(t) \/ W554(t) \/ W556(t)
    \/ W561(t) \/ W562(t) \/ W563(t) \/ W565(t)
    \/ W572(t) \/ W573(t) \/ W574(t) \/ W575(t)
    \/ W582(t) \/ W583(t) \/ W584(t)
    \/ W587(t) \/ W612(t) \/ W613(t) \/ W614(t)
    \/ W617(t) \/ W618(t) \/ W619(t) \/ W624(t) \/ W630(t)
    \/ W634(t) \/ W635(t) \/ W636(t) \/ W639(t)
    \/ W646(t) \/ W647(t) \/ W648(t) \/ W649(t) \/ W650(t)
    \/ W656(t) \/ W657(t) \/ W658(t) \/ W659(t) \/ W660(t)

\* ------------------------------------------------- requests and Tk callbacks
ReqVars == <<rule_in, rule_out, mode, tasks, task, clock, worker, disk, gui>>

\* a request arrives and its handler enters with task_lock:
RLock(m, op, id, to) ==
    /\ mode = m
    /\ req = IdleReq
    /\ task_lock = Free
    /\ task_lock' = Rq
    /\ req' = [IdleReq EXCEPT !.op = op, !.task_id = id, !.pc = to]
    /\ resp' = NoResp
    /\ UNCHANGED ReqVars

\* task = tasks.get(task_id), the only statement of the with block
RGet(op, from, to) ==
    /\ req.op = op /\ req.pc = from
    /\ task_lock' = Free
    /\ IF req.task_id \in tasks
       THEN /\ req' = [req EXCEPT !.ref = req.task_id, !.pc = to]
            /\ UNCHANGED resp
       ELSE /\ req' = IdleReq
            /\ resp' = [NoResp EXCEPT !.op = op, !.code = 404, !.task_id = req.task_id]
    /\ UNCHANGED ReqVars

\* one statement of a handler outside any with block
RStep(op, from, newreq) ==
    /\ req.op = op /\ req.pc = from
    /\ req' = newreq
    /\ UNCHANGED <<task_lock, resp, ReqVars>>

\* the handler returns
RReturn(op, from, r) ==
    /\ req.op = op /\ req.pc = from
    /\ req' = IdleReq
    /\ resp' = r
    /\ UNCHANGED <<task_lock, ReqVars>>

\* get_progress
GP910 == \E id \in TaskIds : RLock("server", "get_progress", id, "L911")

GP911 == RGet("get_progress", "L911", "L927")

GP927 ==
    RStep("get_progress", "L927",
          [req EXCEPT !.status = task[req.ref].status, !.pc = "L928"])

GP928 ==
    RStep("get_progress", "L928",
          [req EXCEPT !.progress = task[req.ref].progress, !.pc = "L929"])

GP929 ==
    RStep("get_progress", "L929",
          [req EXCEPT !.total = task[req.ref].total, !.pc = "L930"])

GP930 ==
    RStep("get_progress", "L930",
          [req EXCEPT !.message = task[req.ref].message, !.pc = "L931"])

GP931 ==
    RReturn("get_progress", "L931",
            [NoResp EXCEPT !.op = "get_progress", !.code = 200,
                           !.task_id = req.task_id, !.status = req.status,
                           !.progress = req.progress, !.total = req.total,
                           !.message = req.message,
                           !.error = task[req.ref].error])

\* download_file
DL950 == \E id \in TaskIds : RLock("server", "download_file", id, "L951")

DL951 == RGet("download_file", "L951", "L959")

\* lines 959-976 without the status test of line 959: the file is sent as soon
\* as it exists
DL959_NoStatusTest ==
    RReturn("download_file", "L959",
            LET st == task[req.ref].status
                r  == [NoResp EXCEPT !.op = "download_file",
                                     !.task_id = req.task_id, !.status = st]
            IN  IF ~disk[req.ref].written THEN [r EXCEPT !.code = 404]
                ELSE [r EXCEPT !.code = 200, !.body = disk[req.ref]])

\* if task.status != 'completed': 400; if the output file is missing: 404;
\* else send_file
DL959 ==
    RReturn("download_file", "L959",
            LET st == task[req.ref].status
                r  == [NoResp EXCEPT !.op = "download_file",
                                     !.task_id = req.task_id, !.status = st]
            IN  IF st # "completed" THEN [r EXCEPT !.code = 400]
                ELSE IF ~disk[req.ref].written THEN [r EXCEPT !.code = 404]
                ELSE [r EXCEPT !.code = 200, !.body = disk[req.ref]])

\* list_tasks
LT1002 == RLock("server", "list_tasks", 0, "L1004")

LT1004 ==
    /\ req.op = "list_tasks" /\ req.pc = "L1004"
    /\ req' = IdleReq
    /\ task_lock' = Free
    /\ resp' = [NoResp EXCEPT !.op = "list_tasks", !.code = 200,
                  !.list = [t \in tasks |->
                              [status |-> task[t].status,
                               progress |-> task[t].progress,
                               message |-> task[t].message,
                               end_time |-> task[t].end_time]]]
    /\ UNCHANGED ReqVars

\* the id uuid4 gives the next task
NextId == Cardinality({t \in TaskIds : task[t].status # "none"}) + 1

\* task = ClipTask(task_id, ...), for drawing and region files that exist
NewTask(m, op, files) ==
    /\ mode = m
    /\ req = IdleReq
    /\ NextId \in TaskIds
    /\ \E f \in files :
          task' = [task EXCEPT ![NextId] = ClipTask(f.input_dxf, f.shp_path, f.output_path)]
    /\ req' = [IdleReq EXCEPT !.op = op, !.task_id = NextId, !.pc = "lock"]
    /\ resp' = NoResp
    /\ UNCHANGED <<rule_in, rule_out, mode, tasks, task_lock, clock, worker, disk,
                   gui>>

\* with task_lock:
NewTaskLock(op) ==
    /\ req.op = op /\ req.pc = "lock"
    /\ task_lock = Free
    /\ task_lock' = Rq
    /\ req' = [req EXCEPT !.pc = "put"]
    /\ UNCHANGED <<resp, ReqVars>>

\* tasks[task_id] = task
NewTaskPut(op) ==
    /\ req.op = op /\ req.pc = "put"
    /\ tasks' = tasks \cup {req.task_id}
    /\ task_lock' = Free
    /\ req' = [req EXCEPT !.pc = "start"]
    /\ UNCHANGED <<rule_in, rule_out, mode, task, clock, worker, disk, resp, gui>>

\* thread.start(), and what the caller does after it
NewTaskStart(op, newgui) ==
    /\ req.op = op /\ req.pc = "start"
    /\ worker' = [worker EXCEPT ![req.task_id].pc = "L543"]
    /\ req' = IdleReq
    /\ resp' = [NoResp EXCEPT !.op = op, !.code = 200, !.task_id = req.task_id]
    /\ gui' = newgui
    /\ UNCHANGED <<rule_in, rule_out, mode, tasks, task, task_lock, clock, disk>>

\* clip_cad
CC877(files) == NewTask("server", "clip_cad", files)

CC879 == NewTaskLock("clip_cad")

CC880 == NewTaskPut("clip_cad")

CC885 == NewTaskStart("clip_cad", gui)

\* ClipGui._start_clip
GS778(files) == ~gui._running /\ NewTask("gui", "_start_clip", files)

GS780 == NewTaskLock("_start_clip")

GS781 == NewTaskPut("_start_clip")

GS785 == NewTaskStart("_start_clip", [_task_id |-> req.task_id, _running |-> TRUE])

\* ClipGui._poll_task
PT798 ==
    /\ gui._running /\ gui._task_id # 0
    /\ RLock("gui", "_poll_task", gui._task_id, "L799")

\* task = tasks.get(self._task_id); without a task the poll is scheduled again
PT799 ==
    /\ req.op = "_poll_task" /\ req.pc = "L799"
    /\ task_lock' = Free
    /\ req' = IF req.task_id \in tasks
              THEN [req EXCEPT !.ref = req.task_id, !.pc = "L802"]
              ELSE IdleReq
    /\ UNCHANGED <<resp, ReqVars>>

PT802 ==
    RStep("_poll_task", "L802",
          [req EXCEPT !.progress = task[req.ref].progress, !.pc = "L803"])

PT803 ==
    RStep("_poll_task", "L803",
          [req EXCEPT !.message = task[req.ref].message, !.pc = "L805"])

\* if task.status in ('completed', 'failed'): self._running = False
PT805 ==
    /\ req.op = "_poll_task" /\ req.pc = "L805"
    /\ LET st   == task[req.ref].status
           term == st \in {"completed", "failed"}
       IN  /\ req' = IF term THEN [req EXCEPT !.pc = "L809"] ELSE IdleReq
           /\ gui' = IF term THEN [gui EXCEPT !._running = FALSE] ELSE gui
           /\ resp' = IF term THEN resp
                      ELSE [NoResp EXCEPT !.op = "_poll_task", !.code = 200,
                                          !.task_id = req.task_id,
                                          !.progress = req.progress,
                                          !.message = req.message]
    /\ UNCHANGED <<rule_in, rule_out, mode, tasks, task, task_lock, clock, worker,
                   disk>>

\* if task.status == 'completed': showinfo, else: showerror with task.error
PT809 ==
    RStep("_poll_task", "L809",
          [req EXCEPT !.status = task[req.ref].status,
                      !.pc = IF task[req.ref].status = "completed"
                             THEN "L814" ELSE "L812"])

PT812 ==
    RStep("_poll_task", "L812", [req EXCEPT !.error = task[req.ref].error, !.pc = "L814"])

PT814 ==
    /\ req.op = "_poll_task" /\ req.pc = "L814"
    /\ task_lock = Free
    /\ task_lock' = Rq
    /\ req' = [req EXCEPT !.pc = "L815"]
    /\ UNCHANGED <<resp, ReqVars>>

\* tasks.pop(self._task_id, None)
PT815 ==
    /\ req.op = "_poll_task" /\ req.pc = "L815"
    /\ tasks' = tasks \ {req.task_id}
    /\ task_lock' = Free
    /\ req' = IdleReq
    /\ resp' = [NoResp EXCEPT !.op = "_poll_task", !.code = 200,
                              !.task_id = req.task_id, !.status = req.status,
                              !.progress = req.progress, !.message = req.message,
                              !.error = req.error]
    /\ UNCHANGED <<rule_in, rule_out, mode, task, clock, worker, disk, gui>>

\* ClipGui._on_close, a Tk callback: while a task runs the user is asked and may
\* answer no (nothing changes); otherwise root.destroy() ends the main loop and
\* the process, and with it every worker thread, all of them daemon threads
GC828 ==
    /\ mode = "gui"
    /\ req = IdleReq
    /\ mode' = "exited"
    /\ worker' = [t \in TaskIds |->
                    IF worker[t].pc \in {"idle", "done", "returned"} THEN worker[t]
                    ELSE [worker[t] EXCEPT !.pc = "killed"]]
    /\ UNCHANGED <<rule_in, rule_out, tasks, task, task_lock, clock, disk, req,
                   resp, gui>>

\* ------------------------------------------------------ the service as a whole
\* Scenario A's line and a circle outside the unit square
LineA ==
    [type |-> "LINE", start |-> <<0, 1>>, end |-> <<3, 1>>,
     layer |-> "A", color |-> "red", linetype |-> "DASHED"]

CircleOut == [type |-> "CIRCLE", center |-> <<3, 3>>, radius |-> 1]

\* the entities of a drawing file, their handles in file order
Numbered(ents) == [i \in DOMAIN ents |-> [id |-> i] @@ ents[i]]

UnitSquareShp ==
    [readable |-> TRUE, polygons |-> {[x1 |-> 1, y1 |-> 0, x2 |-> 2, y2 |-> 2]}]

BadShp == [readable |-> FALSE, polygons |-> {}]

ServiceFiles ==
    [input_dxf : {[ok |-> FALSE, entities |-> <<>>]}
                 \cup {[ok |-> TRUE, entities |-> Numbered(es)] :
                         es \in {<<>>, <<LineA>>, <<LineA, CircleOut>>}},
     shp_path : {UnitSquareShp, BadShp},
     output_path : {"out.dxf"}]

InitService ==
    /\ rule_in = [entity |-> [id |-> 1] @@ LineA, region |-> UnitSquare, err |-> 0]
    /\ rule_out = NoCall
    /\ mode \in {"server", "gui"}
    /\ tasks = {}
    /\ task = [t \in TaskIds |-> NoTask]
    /\ task_lock = Free
    /\ clock = 0
    /\ worker = [t \in TaskIds |-> NoWorker]
    /\ disk = [t \in TaskIds |-> NoFile]
    /\ req = IdleReq
    /\ resp = NoResp
    /\ gui = [_task_id |-> 0, _running |-> FALSE]

Init == InitService

Next ==
    \/ \E t \in TaskIds : process_clip_task(t)
    \/ CC877(ServiceFiles) \/ CC879 \/ CC880 \/ CC885
    \/ GP910 \/ GP911 \/ GP927 \/ GP928 \/ GP929 \/ GP930 \/ GP931
    \/ DL950 \/ DL951 \/ DL959
    \/ LT1002 \/ LT1004
    \/ GS778(ServiceFiles) \/ GS780 \/ GS781 \/ GS785
    \/ PT798 \/ PT799 \/ PT802 \/ PT803 \/ PT805 \/ PT809 \/ PT812 \/ PT814 \/ PT815
    \/ GC828

Spec == Init /\ [][Next]_vars

\* the steps that end a with task_lock block of a request or Tk callback
ReleaseSteps == GP911 \/ DL951 \/ LT1004 \/ CC880 \/ GS781 \/ PT799 \/ PT815

\* the threads are scheduled: a handler inside a with block runs on to its end,
\* and a worker thread that can take a step again and again takes one
Fairness ==
    /\ WF_vars(ReleaseSteps)
    /\ \A t \in TaskIds : SF_vars(process_clip_task(t))

SpecLive == Init /\ [][Next]_vars /\ Fairness

\* ------------------------------------------- the server: clip and download only
DownloadFiles ==
    [input_dxf : {[ok |-> FALSE, entities |-> <<>>]}
                 \cup {[ok |-> TRUE, entities |-> Numbered(es)] :
                         es \in {<<>>, <<LineA>>}},
     shp_path : {UnitSquareShp, BadShp},
     output_path : {"out.dxf"}]

InitDownload == InitService /\ mode = "server"

NextDownload ==
    \/ \E t \in TaskIds : process_clip_task(t)
    \/ CC877(DownloadFiles) \/ CC879 \/ CC880 \/ CC885
    \/ DL950 \/ DL951 \/ DL959

SpecDownload == InitDownload /\ [][NextDownload]_vars

\* --------------------------------------------- one clip task, any entity types
\* one entity of each type tag a drawing may hold, placed against UnitSquareShp
PolyIn ==
    [type |-> "LWPOLYLINE", points |-> <<<<1, 0>>, <<1, 1>>, <<2, 1>>>>,
     closed |-> FALSE, layer |-> "0", color |-> "BYLAYER", linetype |-> "BYLAYER"]

SampleEntities ==
    {LineA, PolyIn, CircleOut,
     [type |-> "ARC", center |-> <<1, 1>>, radius |-> 1],
     [type |-> "TEXT", insert |-> <<1, 1>>],
     [type |-> "MTEXT", insert |-> <<3, 3>>],
     [type |-> "DIMENSION", defpoint |-> <<1, 1>>],
     [type |-> "HATCH",
      paths |-> <<[edges |-> <<[EDGE_TYPE |-> "LineEdge", start |-> <<1, 1>>]>>]>>],
     [type |-> "POINT", location |-> <<1, 1>>],
     [type |-> "INSERT", insert |-> <<1, 1>>],
     [type |-> "SPLINE", control_points |-> <<<<1, 1>>>>],
     [type |-> "ELLIPSE", center |-> <<1, 1>>]}

\* a shapefile that can be read and holds no polygon feature
NoPolygonShp == [readable |-> TRUE, polygons |-> {}]

ClipFiles ==
    [input_dxf : {[ok |-> FALSE, entities |-> <<>>]}
                 \cup {[ok |-> TRUE, entities |-> Numbered(es)] :
                         es \in {<<>>} \cup {<<e>> : e \in SampleEntities}
                                \cup {<<e, f>> : <<e, f>> \in
                                         SampleEntities \X SampleEntities}},
     shp_path : {UnitSquareShp, BadShp, NoPolygonShp},
     output_path : {"out.dxf", "out.dwg"}]

\* the service right after clip_cad has started the thread of task 1
InitClip ==
    /\ rule_in = [entity |-> [id |-> 1] @@ LineA, region |-> UnitSquare, err |-> 0]
    /\ rule_out = NoCall
    /\ mode = "server"
    /\ tasks = {1}
    /\ \E f \in ClipFiles :
          task = [t \in TaskIds |->
                    IF t = 1 THEN ClipTask(f.input_dxf, f.shp_path, f.output_path)
                    ELSE NoTask]
    /\ task_lock = Free
    /\ clock = 0
    /\ worker = [t \in TaskIds |-> IF t = 1 THEN [NoWorker EXCEPT !.pc = "L543"]
                                   ELSE NoWorker]
    /\ disk = [t \in TaskIds |-> NoFile]
    /\ req = IdleReq
    /\ resp = [NoResp EXCEPT !.op = "clip_cad", !.code = 200, !.task_id = 1]
    /\ gui = [_task_id |-> 0, _running |-> FALSE]

NextClip == \E t \in TaskIds : process_clip_task(t)

SpecClip == InitClip /\ [][NextClip]_vars

\* ------------------------------------------------ clip tasks running together
\* the ids of two tasks that run at the same time
ConcurrentIds == {1, 2}

PairFiles ==
    [input_dxf : {[ok |-> TRUE, entities |-> Numbered(es)] :
                     es \in {<<>>, <<LineA>>}},
     shp_path : {UnitSquareShp, BadShp},
     output_path : {"out.dxf"}]

\* the service right after clip_cad has started the threads of all the tasks,
\* each on files of its own
InitPair ==
    /\ rule_in = [entity |-> [id |-> 1] @@ LineA, region |-> UnitSquare, err |-> 0]
    /\ rule_out = NoCall
    /\ mode = "server"
    /\ tasks = ConcurrentIds
    /\ task \in [ConcurrentIds ->
                    {ClipTask(f.input_dxf, f.shp_path, f.output_path) :
                        f \in PairFiles}]
    /\ task_lock = Free
    /\ clock = 0
    /\ worker = [t \in ConcurrentIds |-> [NoWorker EXCEPT !.pc = "L543"]]
    /\ disk = [t \in ConcurrentIds |-> NoFile]
    /\ req = IdleReq
    /\ resp = [NoResp EXCEPT !.op = "clip_cad", !.code = 200, !.task_id = 2]
    /\ gui = [_task_id |-> 0, _running |-> FALSE]

NextPair == \E t \in ConcurrentIds : process_clip_task(t)

SpecPair == InitPair /\ [][NextPair]_vars

\* ------------------------------------------------ properties of the service
\* C1: a task's status changes only along pending -> processing -> completed or
\* pending -> processing -> failed; it is pending until its worker starts; and
\* once it is completed or failed, neither status, error nor end time changes.
C1_StatusLifecycle ==
    [][\A t \in TaskIds :
          /\ task[t].status # task'[t].status =>
                <<task[t].status, task'[t].status>> \in
                    {<<"none", "pending">>, <<"pending", "processing">>,
                     <<"processing", "completed">>, <<"processing", "failed">>}
          /\ task[t].status = "pending" =>
                worker[t].pc \in {"idle", "L543", "L544", "L547", "killed"}
          /\ task[t].status \in {"completed", "failed"} =>
                /\ task'[t].status = task[t].status
                /\ task'[t].error = task[t].error
                /\ task'[t].end_time = task[t].end_time]_vars

\* C2: a get_progress response that reports status 'failed' carries a non-empty
\* error string.
C2_FailedCarriesError ==
    (resp.op = "get_progress" /\ resp.code = 200 /\ resp.status = "failed") =>
        resp.error # NoneVal /\ resp.error # ""

\* C3: a get_progress response that reports status 'completed' carries the
\* completion message with the deleted and added counts, and progress 100.
C3_CompletedCarriesCounts ==
    (resp.op = "get_progress" /\ resp.code = 200 /\ resp.status = "completed") =>
        resp.message.kind = "done" /\ resp.progress = 100

\* the statement the request is at reads status, progress, message or error
ReqAtFieldAccess ==
    req.pc \in {"L927", "L928", "L930", "L931", "L959", "L1004",
                "L802", "L803", "L805", "L809", "L812"}

\* the statement the worker of t is at writes status, progress, message or error
WorkerAtFieldAccess(t) ==
    worker[t].pc \in {"L547", "L548", "L553", "L554", "L562", "L563", "L574",
                      "L575", "L583", "L584", "L613", "L614", "L618", "L619",
                      "L635", "L636", "L647", "L648", "L649", "L657", "L658",
                      "L659"}

\* C4: every read and every write of a task's status, progress, message or
\* error is made by a thread that holds task_lock.
C4_FieldAccessUnderLock ==
    /\ ReqAtFieldAccess => task_lock = Rq
    /\ \A t \in TaskIds : WorkerAtFieldAccess(t) => task_lock = Wk(t)

\* C5: until every entity of the original list has been evaluated, the
\* modelspace holds exactly the original entities.
C5_NoMutationBeforeAllEvaluated ==
    \A t \in TaskIds :
        Len(worker[t].evaluated) < Len(worker[t].entity_list) =>
            worker[t].msp = worker[t].entity_list

\* the rule the type tag stands for, as the dispatch table is specified
C8_Rule(tag) ==
    CASE tag = "LINE" -> "clip_line_entity"
      [] tag = "LWPOLYLINE" -> "clip_lwpolyline_entity"
      [] tag = "CIRCLE" -> "clip_circle_entity"
      [] tag = "ARC" -> "clip_arc_entity"
      [] tag = "HATCH" -> "clip_hatch_entity"
      [] tag = "POINT" -> "clip_point_entity"
      [] OTHER -> "clip_text_entity"

\* the statements after the for loop, on the path without an exception
AfterLoop ==
    {"L617", "L618", "L619", "L624", "L630", "L634", "L635", "L636", "L639",
     "L646", "L647", "L648", "L649", "L650"}

\* C8: the entities are evaluated in order, each once, by the rule its type tag
\* alone selects (every tag without a rule of its own by the anchor-point rule),
\* no rule call raises, and past the loop every entity has been evaluated.
C8_OneRuleByTypeTag ==
    \A t \in TaskIds :
        LET w == worker[t]
        IN  /\ Len(w.evaluated) <= Len(w.entity_list)
            /\ \A k \in DOMAIN w.evaluated :
                  /\ w.evaluated[k].id = w.entity_list[k].id
                  /\ w.evaluated[k].rule = C8_Rule(w.entity_list[k].type)
            /\ w.exc # "rule_error"
            /\ w.pc \in AfterLoop => Len(w.evaluated) = Len(w.entity_list)

\* an arc and a spline have both been evaluated, and the loop is over
C8_Witness ==
    \E t \in TaskIds :
        LET w == worker[t]
        IN  /\ w.pc = "L617" /\ Len(w.evaluated) = 2
            /\ w.entity_list[1].type = "ARC"
            /\ w.entity_list[2].type = "SPLINE"
            /\ w.evaluated[2].rule = "clip_text_entity"
\* the region file of task t is missing, unreadable or holds no polygon
RegionUnusable(t) ==
    ~task[t].shp_path.readable \/ task[t].shp_path.polygons = {}

\* the drawing of task t cannot be loaded
DrawingUnloadable(t) == ~task[t].input_dxf.ok

\* C16: with an unusable region file or a drawing that cannot be loaded, no rule
\* is ever applied, nothing is deleted or added, no output file is written, and
\* the task ends failed with a failure message and an error; the drawing is
\* loaded only after the region has been loaded and found polygonal.
C16_InputErrorFailsTask ==
    \A t \in TaskIds :
        LET w == worker[t]
        IN  /\ (w.pc # "idle" /\ (RegionUnusable(t) \/ DrawingUnloadable(t))) =>
                  /\ w.evaluated = <<>>
                  /\ w.all_to_delete = <<>> /\ w.all_to_add = <<>>
                  /\ w.di = 0 /\ w.ai = 0 /\ w.deleted_count = 0
                  /\ w.msp = <<>>
                  /\ ~disk[t].written
                  /\ task[t].status # "completed"
                  /\ w.pc = "done" =>
                        /\ task[t].status = "failed"
                        /\ task[t].message.kind = "failed"
                        /\ task[t].error \notin {NoneVal, ""}
            /\ (w.pc # "idle" /\ RegionUnusable(t)) => w.entity_list = <<>>
            /\ w.pc = "L565" => w.shp_polygon.kind \in {"Polygon", "MultiPolygon"}

\* a task whose region file is unusable and whose drawing holds entities has
\* ended failed
C16_Witness ==
    \E t \in TaskIds :
        /\ worker[t].pc = "done" /\ task[t].status = "failed"
        /\ RegionUnusable(t)
        /\ Len(task[t].input_dxf.entities) = 2
\* the statements from the end of the mutation pass to the end of the try block
AfterMutation ==
    {"L634", "L635", "L636", "L639", "L646", "L647", "L648", "L649", "L650"}

\* the number of msp.delete_entity calls of task t that raised
FailedDeletes(t) == worker[t].di - worker[t].deleted_count

\* C17: a failing deletion or addition of the mutation pass does not end the
\* pass or fail the task: past the pass every deletion and addition has been
\* attempted, the only errors that reach the task's except clause are those of
\* the two loads and of the save, and a task that saved its drawing ends
\* completed whatever failed in the pass.
C17_MutationFailuresSwallowed ==
    \A t \in TaskIds :
        LET w == worker[t]
        IN  /\ w.pc \in AfterMutation =>
                  /\ w.di = Len(w.all_to_delete)
                  /\ w.ai = Len(w.all_to_add)
            /\ w.exc \in {NoneVal, "shp_error", "cad_error", "save_error"}
            /\ w.exc = "save_error" =>
                  w.di = Len(w.all_to_delete) /\ w.ai = Len(w.all_to_add)
            /\ (w.pc = "done" /\ w.exc = NoneVal) =>
                  /\ task[t].status = "completed"
                  /\ disk[t].written
                  /\ w.di = Len(w.all_to_delete) /\ w.ai = Len(w.all_to_add)

\* a task has ended completed and saved although a deletion failed and the
\* addition of its replacement failed too (the replacement is in the saved
\* drawing once, from the rule's own msp.add_line)
C17_Witness ==
    \E t \in TaskIds :
        /\ worker[t].pc = "done" /\ task[t].status = "completed"
        /\ disk[t].written
        /\ FailedDeletes(t) >= 1
        /\ Len(worker[t].all_to_add) = 1
        /\ Cardinality({k \in DOMAIN disk[t].entities :
                           disk[t].entities[k] = worker[t].all_to_add[1]}) = 1
\* the number of original entities of task t that are no longer in the modelspace
RemovedCount(t) ==
    Cardinality({k \in DOMAIN worker[t].entity_list :
                    ~InMsp(worker[t].msp, worker[t].entity_list[k].id)})

\* the number of entities the mutation pass of task t has appended to the
\* modelspace: its length, less the original entities still in it and the
\* entities the rules' own msp.add_* calls inserted
AddedInPass(t) ==
    Len(worker[t].msp) - (Len(worker[t].entity_list) - RemovedCount(t))
        - Len(worker[t].all_to_add)

\* C18: the completion message of a task reports as deleted the number of
\* entities actually removed from the drawing and as added the number of
\* replacement entities actually added in the mutation pass; a deletion or an
\* addition that failed is in neither count.
C18_CountsAreActual ==
    \A t \in TaskIds :
        (worker[t].pc = "done" /\ task[t].status = "completed") =>
            /\ task[t].message.kind = "done"
            /\ task[t].message.a = RemovedCount(t)
            /\ task[t].message.b = AddedInPass(t)
\* C19: a task whose output path is a DWG file and that ends completed has
\* persisted its drawing either as a DWG file at that path or, the conversion
\* having failed or being unavailable, as a DXF file under the fallback name.
C19_DwgFallsBackToDxf ==
    \A t \in TaskIds :
        (worker[t].pc = "done" /\ task[t].status = "completed"
            /\ is_dwg_file(task[t].output_path)) =>
            /\ disk[t].written
            /\ \/ disk[t].format = "DWG" /\ disk[t].path = task[t].output_path
               \/ disk[t].format = "DXF"
                     /\ disk[t].path = DxfPathOf(task[t].output_path)
                     /\ ~is_dwg_file(disk[t].path)
\* C20: every task whose worker has started eventually reaches status completed
\* or failed, whatever the polls, task creations and evictions interleaved with
\* it: nothing cancels or stalls the worker.
C20_StartedTaskEnds ==
    \A t \in TaskIds :
        (worker[t].pc # "idle") ~> (task[t].status \in {"completed", "failed"})

\* the statements before the evaluation of the entities starts
BeforeEvaluation ==
    {"idle", "L543", "L544", "L547", "L548", "L552", "L553", "L554", "L556",
     "L561", "L562", "L563", "L565", "L572", "L573", "L574", "L575"}

\* C21: a task's progress never decreases and lies in 0..100; it is at most 15
\* until evaluation starts; in the loop it is written only after the k-th of n
\* entities with k a multiple of the batch size or k = n, as
\* 15 + floor(70 * k / n); it is 85 in the mutation pass and 95 at the save; and
\* it is 100 exactly when the status is completed.
C21_ProgressContract ==
    [][\A t \in TaskIds :
          LET w == worker[t]
              k == w.idx + 1
              n == Len(w.entity_list)
          IN  /\ task'[t].progress >= task[t].progress
              /\ task'[t].progress \in 0..100
              /\ worker'[t].pc \in BeforeEvaluation => task'[t].progress <= 15
              /\ (w.pc \in {"L587", "L612", "L613", "L614"}
                    /\ task'[t].progress # task[t].progress) =>
                    /\ k % BatchSize = 0 \/ k = n
                    /\ task'[t].progress = 15 + (70 * k) \div n
                    /\ k = n => task'[t].progress = 85
              /\ worker'[t].pc \in {"L624", "L630", "L634", "L635", "L636"} =>
                    task'[t].progress = 85
              /\ worker'[t].pc \in {"L639", "L646", "L647"} =>
                    task'[t].progress = 95
              /\ task'[t].progress = 100 <=> task'[t].status = "completed"]_vars

\* C22: download returns file bytes only for a task whose status is completed,
\* and then the bytes of its saved drawing; a task whose status is completed has
\* its output drawing on disk at its output path; for a pending, processing or
\* failed task download answers with an error and no bytes; for an unknown task
\* id it answers not-found.
C22_DownloadOnlyCompleted ==
    /\ \A t \in TaskIds :
          task[t].status = "completed" =>
              /\ disk[t].written
              /\ disk[t].path = task[t].output_path
    /\ resp.op = "download_file" =>
          /\ resp.body # NoFile =>
                /\ resp.code = 200
                /\ resp.status = "completed"
                /\ task[resp.task_id].status = "completed"
                /\ resp.body = disk[resp.task_id]
          /\ resp.status \in {"pending", "processing", "failed"} =>
                resp.code = 400 /\ resp.body = NoFile
          /\ resp.status = NoneVal => resp.code = 404 /\ resp.body = NoFile
          /\ resp.code = 404 => resp.status = NoneVal

\* a download has returned the saved drawing, with entities in it, of a
\* completed task
C22_Witness ==
    /\ resp.op = "download_file" /\ resp.code = 200
    /\ resp.body.written /\ Len(resp.body.entities) > 0
    /\ task[resp.task_id].status = "completed"

\* task t has a usable region file and a drawing that loads with no entity
EmptyDrawing(t) ==
    /\ ~RegionUnusable(t)
    /\ task[t].input_dxf.ok /\ task[t].input_dxf.entities = <<>>

\* C23: a task on a drawing with 0 entities (its region file usable) applies no
\* rule, deletes and adds nothing, never makes a per-entity progress update,
\* moves its progress from 15 only to 85, then 95, then 100, can fail only in
\* the save, and, once saved, ends completed with deleted = 0 and added = 0 and
\* no error.
C23_EmptyDrawingCompletes ==
    [][\A t \in TaskIds :
          (EmptyDrawing(t) /\ worker[t].pc # "idle") =>
              LET w == worker'[t]
                  p == task[t].progress
                  q == task'[t].progress
              IN  /\ w.evaluated = <<>>
                  /\ w.all_to_delete = <<>> /\ w.all_to_add = <<>>
                  /\ w.deleted_count = 0
                  /\ w.pc \notin {"L587", "L612", "L613", "L614", "L624", "L630"}
                  /\ w.exc \in {NoneVal, "save_error"}
                  /\ p # q => <<p, q>> \in {<<0, 5>>, <<5, 10>>, <<10, 15>>,
                                            <<15, 85>>, <<85, 95>>, <<95, 100>>}
                  /\ (w.pc = "done" /\ w.exc = NoneVal) =>
                        /\ task'[t].status = "completed"
                        /\ task'[t].progress = 100
                        /\ task'[t].message = Msg("done", 0, 0)
                        /\ task'[t].error = NoneVal
                        /\ task'[t].total = 0
                        /\ disk'[t].written /\ disk'[t].entities = <<>>]_vars

\* a task on a drawing with 0 entities has ended completed
C23_Witness ==
    \E t \in TaskIds :
        /\ EmptyDrawing(t)
        /\ worker[t].pc = "done" /\ task[t].status = "completed"
        /\ task[t].message = Msg("done", 0, 0)

\* C24: a task whose region file yields no polygon or multi-polygon ends
\* failed: no rule is ever called with a region that is not polygonal, the
\* task deletes no entity, writes no output and never has status completed.
C24_NonPolygonalRegionFails ==
    \A t \in TaskIds :
        LET w == worker[t]
        IN  /\ w.pc \in {"L587", "L612", "L613", "L614"} => IsPolygonal(w.shp_polygon)
            /\ (task[t].shp_path.polygons = {} /\ w.pc # "idle") =>
                  /\ w.evaluated = <<>>
                  /\ w.di = 0 /\ w.deleted_count = 0
                  /\ ~disk[t].written
                  /\ task[t].status \in {"pending", "processing", "failed"}
                  /\ w.exc \in {NoneVal, "shp_error"}
                  /\ w.pc = "done" =>
                        task[t].status = "failed" /\ task[t].error = "shp_error"

\* a task on a drawing with entities whose region file can be read and holds
\* no polygon has ended failed
C24_Witness ==
    \E t \in TaskIds :
        /\ task[t].shp_path.readable /\ task[t].shp_path.polygons = {}
        /\ Len(task[t].input_dxf.entities) > 0
        /\ worker[t].pc = "done" /\ task[t].status = "failed"

\* what a task reports and leaves on disk
Outcome(t) ==
    [status |-> task[t].status, message |-> task[t].message,
     error |-> task[t].error, progress |-> task[t].progress,
     total |-> task[t].total, file |-> disk[t]]

\* the outcome that the inputs and the locals of the worker of t determine
OwnOutcome(t) ==
    LET w == worker[t]
        n == Len(task[t].input_dxf.entities)
    IN  IF w.exc = NoneVal
        THEN [status |-> "completed",
              message |-> Msg("done", w.deleted_count, Len(w.all_to_add)),
              error |-> NoneVal, progress |-> 100, total |-> n,
              file |-> [written |-> TRUE, entities |-> w.msp,
                        path |-> task[t].output_path, format |-> "DXF"]]
        ELSE [status |-> "failed", message |-> Msg("failed", 0, 0),
              error |-> w.exc,
              progress |-> CASE w.exc = "shp_error" -> 5
                             [] w.exc = "cad_error" -> 10
                             [] OTHER -> 95,
              total |-> IF w.exc = "shp_error" THEN 0 ELSE n,
              file |-> NoFile]

\* C25: tasks running at the same time are independent: a step of the worker
\* of one task changes, besides task_lock and the clock, only the record, the
\* locals and the output file of that task; the record and the file of a task
\* change only in a step of its own worker; and the outcome of a task that has
\* ended is the one its own inputs and its own locals determine, whatever the
\* other tasks did.
C25_TasksIndependent ==
    [][\A t \in ConcurrentIds :
          /\ worker'[t] # worker[t] =>
                \A s \in ConcurrentIds \ {t} :
                    /\ task'[s] = task[s]
                    /\ disk'[s] = disk[s]
                    /\ worker'[s] = worker[s]
          /\ (task'[t] # task[t] \/ disk'[t] # disk[t]) => worker'[t] # worker[t]
          /\ task'[t].input_dxf = task[t].input_dxf
          /\ task'[t].shp_path = task[t].shp_path
          /\ task'[t].output_path = task[t].output_path
          /\ tasks' = tasks
          /\ (worker[t].pc = "done" => Outcome(t) = OwnOutcome(t))']_vars

\* two tasks have run at the same time: one has ended completed with a
\* replacement entity while the other is in the middle of its mutation pass
C25_Witness ==
    \E s, t \in ConcurrentIds :
        /\ worker[s].pc = "done" /\ task[s].status = "completed"
        /\ Len(worker[s].all_to_add) = 1
        /\ worker[t].pc = "L630" /\ task[t].end_time = 0
        /\ task[s].end_time > 0
        /\ s # t

\* the handles of the entities in a sequence of entities
Handles(ents) == [k \in DOMAIN ents |-> ents[k].id]

\* C26: the entities passed to the rules are those the drawing held when
\* evaluation began, in the drawing's order and each once: the list the loop
\* runs over stays the drawing as loaded while the modelspace grows, the
\* entities evaluated so far are a prefix of it, past the loop they are all of
\* it, and no replacement entity created in the task is among them.
C26_OriginalEntitiesOnly ==
    \A t \in TaskIds :
        LET w        == worker[t]
            original == task[t].input_dxf.entities
        IN  /\ w.entity_list \in {<<>>, original}
            /\ Len(w.evaluated) <= Len(original)
            /\ Handles(w.evaluated) = SubSeq(Handles(original), 1, Len(w.evaluated))
            /\ w.pc \in AfterLoop => Len(w.evaluated) = Len(original)
            /\ \A a \in DOMAIN w.all_to_add :
                  /\ ~InMsp(original, w.all_to_add[a].id)
                  /\ \A k \in DOMAIN w.evaluated :
                        w.evaluated[k].id # w.all_to_add[a].id

\* the second entity of a drawing has been evaluated after the rule of the
\* first had inserted a replacement entity into the modelspace
C26_Witness ==
    \E t \in TaskIds :
        LET w == worker[t]
        IN  /\ w.pc = "L617" /\ Len(w.evaluated) = 2
            /\ Len(w.all_to_add) >= 1
            /\ w.all_to_delete # <<>> /\ w.all_to_delete[1] = w.entity_list[1].id
            /\ Len(w.msp) > Len(w.entity_list)

\* the number of times the entity with handle h is in a sequence of entities
Occurrences(ents, h) == Cardinality({k \in DOMAIN ents : ents[k].id = h})

\* C27: each replacement entity is inserted into the drawing once over the
\* whole task: it is in the modelspace once at every moment after its creation,
\* and the saved drawing holds it exactly once.
C27_ReplacementAddedOnce ==
    \A t \in TaskIds :
        \A a \in DOMAIN worker[t].all_to_add :
            LET h == worker[t].all_to_add[a].id
            IN  /\ Occurrences(worker[t].msp, h) = 1
                /\ disk[t].written => Occurrences(disk[t].entities, h) = 1

\* C28: the accumulated deletion list holds no source entity twice, also after
\* a rule has failed once it had marked its entity; so the mutation pass
\* attempts the deletion of a source entity at most once.
C28_NoDuplicateDeletion ==
    \A t \in TaskIds :
        \A i, j \in DOMAIN worker[t].all_to_delete :
            worker[t].all_to_delete[i] = worker[t].all_to_delete[j] => i = j
====
